---------------------------- MODULE Spec2Model ----------------------------
(***************************************************************************)
(* A model of the robot-script transpiler: the expression validators       *)
(* (validator.py), the statement recognizer (parser.py), the translation   *)
(* configuration (spike_translation_config.py) and the code generator      *)
(* (spike_generator.py).                                                   *)
(*                                                                         *)
(* Syntax trees are records tagged by the field k with the name of the     *)
(* Python ast class; their other fields carry the names the ast module     *)
(* gives them.  Python values are records [t |-> type, ...]: numbers carry *)
(* n, strings carry s.  A float is kept as an exact decimal, n counting    *)
(* units of 1/FloatScale.  Text (ast.unparse, generated lines) is a        *)
(* sequence of tokens, each a record [s |-> "..."] or [v |-> value].       *)
(***************************************************************************)
EXTENDS Integers, Sequences, FiniteSets, TLC

VARIABLES
    expr,               \* validator run: the expression node under test
    verdict,            \* validator run: results of the two grammars
    src,                \* translation: the source (tree, comment lines)
    pc,                 \* translation: "start", "recognized", "failed", "generated"
    ir,                 \* translation: outcome of recognition
    out,                \* translation: outcome of generation
    GENERATION_CONFIG,  \* the process-wide toggle table
    generators,         \* service run: the generator instance of each request
    name,               \* lookup run: the device name looked up
    looked              \* lookup run: results of the three lookups

vars == <<expr, verdict, src, pc, ir, out, GENERATION_CONFIG, generators, name, looked>>

-----------------------------------------------------------------------------
(* Python values *)

FloatScale == 10 * 1000

PyInt(n) == [t |-> "int", n |-> n]
PyFloat(n) == [t |-> "float", n |-> n]
PyBool(b) == [t |-> "bool", n |-> IF b THEN 1 ELSE 0]
PyComplex(n) == [t |-> "complex", n |-> n]
PyStr(s) == [t |-> "str", s |-> s]
PyNone == [t |-> "None"]

\* isinstance(value, (int, float)); bool is a subclass of int
IsIntOrFloat(v) == v.t \in {"int", "float", "bool"}

\* isinstance(value, bool)
IsBool(v) == v.t = "bool"

\* isinstance(value, str)
IsStr(v) == v.t = "str"

-----------------------------------------------------------------------------
(* Expression nodes *)

Constant(v) == [k |-> "Constant", value |-> v]
Name(id) == [k |-> "Name", id |-> id]
UnaryOp(op, operand) == [k |-> "UnaryOp", op |-> op, operand |-> operand]
BinOp(left, op, right) == [k |-> "BinOp", left |-> left, op |-> op, right |-> right]
BoolOp(op, values) == [k |-> "BoolOp", op |-> op, values |-> values]
Compare(left, op, right) == [k |-> "Compare", left |-> left, ops |-> <<op>>, comparators |-> <<right>>]
Subscript(value, slice) == [k |-> "Subscript", value |-> value, slice |-> slice]
Attribute(value, attr) == [k |-> "Attribute", value |-> value, attr |-> attr]
Keyword(arg, value) == [arg |-> arg, value |-> value]
Call(func, args, keywords) == [k |-> "Call", func |-> func, args |-> args, keywords |-> keywords]
Await(value) == [k |-> "Await", value |-> value]

\* distance_sensor.get_distance, a callee on the allow-list
AllowedCallee == Attribute(Name("distance_sensor"), "get_distance")

-----------------------------------------------------------------------------
(* validator.py *)

ALLOWED_ATTR_CALLS ==
    { <<"distance_sensor", "get_distance">>,
      <<"distance_sensor", "get_distance_cm">>,
      <<"color_sensor", "get_reflected_light">>,
      <<"ir_sensor", "get_direction">>,
      <<"ir_sensor", "get_strength">>,
      <<"gyro_sensor", "get_angle">>,
      <<"gyro_sensor", "get_rate">> }

\* The dotted path of an attribute chain, root first; <<>> when the chain
\* does not end in a Name.
RECURSIVE DottedPath(_)
DottedPath(func) ==
    IF func.k = "Attribute"
    THEN LET base == DottedPath(func.value)
         IN  IF base = <<>> THEN <<>> ELSE Append(base, func.attr)
    ELSE IF func.k = "Name" THEN <<func.id>> ELSE <<>>

is_allowed_attr_call(func) == DottedPath(func) \in ALLOWED_ATTR_CALLS

RECURSIVE is_numeric_expr(_)
is_numeric_expr(node) ==
    CASE node.k = "Constant" -> IsIntOrFloat(node.value)
      [] node.k = "Name" -> TRUE
      [] node.k = "UnaryOp" /\ node.op \in {"UAdd", "USub"} -> is_numeric_expr(node.operand)
      [] node.k = "BinOp" /\ node.op \in {"Add", "Sub", "Mult", "Div"} ->
            is_numeric_expr(node.left) /\ is_numeric_expr(node.right)
      [] node.k = "Subscript" -> is_numeric_expr(node.value) /\ is_numeric_expr(node.slice)
      [] node.k = "Call" ->
            IF node.func.k = "Attribute" /\ is_allowed_attr_call(node.func)
            THEN \A i \in DOMAIN node.args : is_numeric_expr(node.args[i])
            ELSE FALSE
      [] OTHER -> FALSE

\* A plausible slip: the literal test forgets the bool type check.
RECURSIVE is_boolean_expr_anyconst(_)
is_boolean_expr_anyconst(node) ==
    CASE node.k = "Constant" -> TRUE
      [] node.k = "Name" -> TRUE
      [] node.k = "Compare" -> TRUE
      [] node.k = "BoolOp" /\ node.op \in {"And", "Or"} ->
            \A i \in DOMAIN node.values : is_boolean_expr_anyconst(node.values[i])
      [] node.k = "UnaryOp" /\ node.op = "Not" -> is_boolean_expr_anyconst(node.operand)
      [] OTHER -> FALSE

RECURSIVE is_boolean_expr(_)
is_boolean_expr(node) ==
    CASE node.k = "Constant" /\ IsBool(node.value) -> TRUE
      [] node.k = "Name" -> TRUE
      [] node.k = "Compare" -> TRUE
      [] node.k = "BoolOp" /\ node.op \in {"And", "Or"} ->
            \A i \in DOMAIN node.values : is_boolean_expr(node.values[i])
      [] node.k = "UnaryOp" /\ node.op = "Not" -> is_boolean_expr(node.operand)
      [] OTHER -> FALSE

-----------------------------------------------------------------------------
(* ast.unparse: the normalised text of an expression, as tokens *)

Tok(s) == [s |-> s]
ValTok(v) == [v |-> v]

\* ast._Precedence
Precedence(level) ==
    CASE level = "TEST" -> 2 [] level = "OR" -> 3 [] level = "AND" -> 4
      [] level = "NOT" -> 5 [] level = "CMP" -> 6 [] level = "ARITH" -> 12
      [] level = "TERM" -> 13 [] level = "FACTOR" -> 14 [] level = "AWAIT" -> 16
      [] level = "ATOM" -> 17

OperatorPrecedence(node) ==
    CASE node.k = "UnaryOp" -> IF node.op = "Not" THEN Precedence("NOT") ELSE Precedence("FACTOR")
      [] node.k = "BinOp" -> IF node.op \in {"Add", "Sub"} THEN Precedence("ARITH") ELSE Precedence("TERM")
      [] node.k = "BoolOp" -> IF node.op = "Or" THEN Precedence("OR") ELSE Precedence("AND")
      [] node.k = "Compare" -> Precedence("CMP")
      [] node.k = "Await" -> Precedence("AWAIT")
      [] OTHER -> Precedence("ATOM")

OperatorText(op) ==
    CASE op = "USub" -> "-" [] op = "UAdd" -> "+" [] op = "Invert" -> "~" [] op = "Not" -> "not "
      [] op = "Add" -> " + " [] op = "Sub" -> " - " [] op = "Mult" -> " * " [] op = "Div" -> " / "
      [] op = "Mod" -> " % " [] op = "And" -> " and " [] op = "Or" -> " or "
      [] op = "Gt" -> " > " [] op = "Eq" -> " == " [] op = "Lt" -> " < "

Parens(need, toks) == IF need THEN <<Tok("(")>> \o toks \o <<Tok(")")>> ELSE toks

RECURSIVE Unparse(_, _)
RECURSIVE UnparseList(_, _)
RECURSIVE UnparseOperands(_, _, _)
RECURSIVE UnparseKeywords(_, _)

\* The text of node where the context requires precedence level prec.
Unparse(node, prec) ==
    LET own == OperatorPrecedence(node)
    IN  CASE node.k = "Constant" -> <<ValTok(node.value)>>
          [] node.k = "Name" -> <<Tok(node.id)>>
          [] node.k = "UnaryOp" ->
                Parens(prec > own, <<Tok(OperatorText(node.op))>> \o Unparse(node.operand, own))
          [] node.k = "BinOp" ->
                Parens(prec > own, Unparse(node.left, own) \o <<Tok(OperatorText(node.op))>>
                                      \o Unparse(node.right, own + 1))
          [] node.k = "BoolOp" ->
                Parens(prec > own, UnparseOperands(node.values, node.op, own + 1))
          [] node.k = "Compare" ->
                Parens(prec > own, Unparse(node.left, own + 1) \o <<Tok(OperatorText(node.ops[1]))>>
                                      \o Unparse(node.comparators[1], own + 1))
          [] node.k = "Await" ->
                Parens(prec > own, <<Tok("await ")>> \o Unparse(node.value, Precedence("ATOM")))
          [] node.k = "Attribute" ->
                Unparse(node.value, Precedence("ATOM")) \o <<Tok("."), Tok(node.attr)>>
          [] node.k = "Subscript" ->
                Unparse(node.value, Precedence("ATOM")) \o <<Tok("[")>>
                    \o Unparse(node.slice, Precedence("TEST")) \o <<Tok("]")>>
          [] node.k = "Call" ->
                Unparse(node.func, Precedence("ATOM")) \o <<Tok("(")>>
                    \o UnparseList(node.args, node.keywords # <<>>)
                    \o UnparseKeywords(node.keywords, FALSE) \o <<Tok(")")>>

\* The operands of a boolean operator: each one level tighter than the last.
UnparseOperands(values, op, prec) ==
    IF values = <<>> THEN <<>>
    ELSE Unparse(Head(values), prec)
            \o (IF Len(values) > 1 THEN <<Tok(OperatorText(op))>> ELSE <<>>)
            \o UnparseOperands(Tail(values), op, prec + 1)

\* Positional arguments, comma separated; more is whether something follows.
UnparseList(args, more) ==
    IF args = <<>> THEN <<>>
    ELSE Unparse(Head(args), Precedence("TEST"))
            \o (IF Len(args) > 1 \/ more THEN <<Tok(", ")>> ELSE <<>>)
            \o UnparseList(Tail(args), more)

UnparseKeywords(keywords, more) ==
    IF keywords = <<>> THEN <<>>
    ELSE <<Tok(Head(keywords).arg), Tok("=")>> \o Unparse(Head(keywords).value, Precedence("TEST"))
            \o (IF Len(keywords) > 1 \/ more THEN <<Tok(", ")>> ELSE <<>>)
            \o UnparseKeywords(Tail(keywords), more)

\* ast.unparse(node)
unparse(node) == Unparse(node, Precedence("TEST"))

-----------------------------------------------------------------------------
(* Statement nodes *)

\* Nodes as the source items carry them; parsing adds the position
\* (lineno, end_lineno) and, to a compound statement, its parsed blocks.
Loc(l, e) == [lineno |-> l, end_lineno |-> e]
Expr(value) == [k |-> "Expr", value |-> value]
Assign(targets, value) == [k |-> "Assign", targets |-> targets, value |-> value]
AugAssign(target, op, value) == [k |-> "AugAssign", target |-> target, op |-> op, value |-> value]
Pass == [k |-> "Pass"]
Break == [k |-> "Break"]
Return(value) == [k |-> "Return", value |-> value]
For(target, iter) == [k |-> "For", target |-> target, iter |-> iter]
While(test) == [k |-> "While", test |-> test]
If(test) == [k |-> "If", test |-> test]
FunctionDef(fname, args) == [k |-> "FunctionDef", name |-> fname, args |-> args]
With(item) == [k |-> "With", item |-> item]

-----------------------------------------------------------------------------
(* parser.py *)

\* The outcome of a call: a returned value (val, a sequence holding the
\* value, empty for None) or a raised exception.
Returned(val) == [exc |-> "none", msg |-> <<>>, lineno |-> PyNone, val |-> val]
ReturnedNone == Returned(<<>>)
\* raise SyntaxError(msg): the exception carries msg and no line number
RaiseSyntaxError(msg) == [exc |-> "SyntaxError", msg |-> msg, lineno |-> PyNone, val |-> <<>>]
RaiseTypeError(msg) == [exc |-> "TypeError", msg |-> msg, lineno |-> PyNone, val |-> <<>>]
Raised(r) == r.exc # "none"

with_loc(d, node) == d @@ [lineno |-> node.lineno, end_lineno |-> node.end_lineno]

\* obj[-1].lower()
LastLetter(obj) ==
    CASE obj = "motor_a" -> "a" [] obj = "motor_b" -> "b"
      [] obj = "motor_c" -> "c" [] obj = "motor_d" -> "d"

\* -value: defined on numbers only
CanNegate(v) == v.t \in {"int", "float", "bool", "complex"}
Negate(v) == [t |-> IF v.t = "bool" THEN "int" ELSE v.t, n |-> 0 - v.n]

MotorStartMessage == <<Tok("motor.start() expects a numeric expression (e.g., 50, speeds[i], x+5).")>>
WaitMessage == <<Tok("wait() expects a numeric expression in seconds.")>>

\* " + ' ' + ".join(parts)
RECURSIVE JoinParts(_)
JoinParts(args) ==
    IF args = <<>> THEN <<>>
    ELSE unparse(Head(args)) \o (IF Len(args) > 1 THEN <<Tok(" + ' ' + ")>> ELSE <<>>)
            \o JoinParts(Tail(args))

CallArgs(args) ==
    [i \in DOMAIN args |->
        IF args[i].k = "Constant"
        THEN [type |-> "constant", value |-> args[i].value]
        ELSE [type |-> "expression", value |-> unparse(args[i])]]

parse_call(call_node) ==
    IF call_node.func.k = "Attribute"
    THEN LET obj == IF call_node.func.value.k = "Name" THEN call_node.func.value.id ELSE "None"
             method == call_node.func.attr
         IN  IF obj \in {"motor_a", "motor_b", "motor_c", "motor_d"}
             THEN IF method = "start" /\ call_node.args # <<>>
                  THEN LET arg == call_node.args[1]
                       IN  CASE arg.k = "Constant" ->
                                  Returned(<<[type |-> "motor_start", motor |-> LastLetter(obj), speed |-> arg.value]>>)
                             [] arg.k = "UnaryOp" /\ arg.op = "USub" /\ arg.operand.k = "Constant" ->
                                  IF CanNegate(arg.operand.value)
                                  THEN Returned(<<[type |-> "motor_start", motor |-> LastLetter(obj),
                                                   speed |-> Negate(arg.operand.value)]>>)
                                  ELSE RaiseTypeError(<<Tok("bad operand type for unary -")>>)
                             [] OTHER ->
                                  IF is_numeric_expr(arg)
                                  THEN Returned(<<[type |-> "motor_start", motor |-> LastLetter(obj),
                                                   speed_expr |-> unparse(arg)]>>)
                                  ELSE RaiseSyntaxError(MotorStartMessage)
                  ELSE IF method = "stop"
                       THEN Returned(<<[type |-> "motor_stop", motor |-> LastLetter(obj)]>>)
                       ELSE ReturnedNone
             ELSE IF obj = "ir_sensor"
                  THEN CASE method = "get_direction" -> Returned(<<[type |-> "ir_direction"]>>)
                         [] method = "get_strength" -> Returned(<<[type |-> "ir_strength"]>>)
                         [] OTHER -> ReturnedNone
                  ELSE ReturnedNone
    ELSE IF call_node.func.k = "Name"
    THEN LET func_name == call_node.func.id
         IN  IF func_name = "wait" /\ call_node.args # <<>>
             THEN LET arg == call_node.args[1]
                  IN  IF arg.k = "Constant"
                      THEN Returned(<<[type |-> "wait", seconds |-> arg.value]>>)
                      ELSE IF is_numeric_expr(arg)
                           THEN Returned(<<[type |-> "wait", seconds_expr |-> unparse(arg)]>>)
                           ELSE RaiseSyntaxError(WaitMessage)
             ELSE IF func_name = "print"
                  THEN CASE Len(call_node.args) = 0 ->
                                Returned(<<[type |-> "print", message |-> PyStr("")]>>)
                         [] Len(call_node.args) = 1 ->
                                IF call_node.args[1].k = "Constant"
                                THEN Returned(<<[type |-> "print", message |-> call_node.args[1].value]>>)
                                ELSE Returned(<<[type |-> "print", expression |-> unparse(call_node.args[1])]>>)
                         [] OTHER ->
                                Returned(<<[type |-> "print", expression |-> JoinParts(call_node.args)]>>)
                  ELSE Returned(<<[type |-> "function_call", name |-> func_name,
                                   args |-> CallArgs(call_node.args)]>>)
    ELSE ReturnedNone

\* What follows a call that may raise: the exception propagates, otherwise
\* Then continues with the value returned.
Try(outcome, Then(_)) == IF Raised(outcome) THEN outcome ELSE Then(outcome.val)

RECURSIVE parse_stmt(_)
RECURSIVE parse_block(_)

\* A loop that stops at the first statement that yields no instruction.
parse_block_stopping(stmts) ==
    IF stmts = <<>> THEN Returned(<<>>)
    ELSE Try(parse_stmt(Head(stmts)), LAMBDA instr :
             IF instr = <<>> THEN Returned(<<>>)
             ELSE Try(parse_block(Tail(stmts)), LAMBDA rest : Returned(instr \o rest)))

\* The loop every block goes through: parse each statement in order, keep
\* the instructions that are not None, stop at the first exception.
parse_block(stmts) ==
    IF stmts = <<>> THEN Returned(<<>>)
    ELSE Try(parse_stmt(Head(stmts)), LAMBDA instr :
             Try(parse_block(Tail(stmts)), LAMBDA rest : Returned(instr \o rest)))

parse_for(for_node) ==
    Try(parse_block(for_node.body), LAMBDA body :
        Returned(<<[type |-> "for", target |-> unparse(for_node.target),
                    iter |-> unparse(for_node.iter), body |-> body]>>))

\* A while that takes its condition unchecked.
parse_while_unchecked(while_node) ==
    Try(parse_block(while_node.body), LAMBDA body :
        Returned(<<[type |-> "while", condition |-> unparse(while_node.test), body |-> body]>>))

parse_while(while_node) ==
    IF ~is_boolean_expr(while_node.test)
    THEN RaiseSyntaxError(<<Tok("while condition must be a boolean expression, got: ")>>
                              \o unparse(while_node.test))
    ELSE Try(parse_block(while_node.body), LAMBDA body :
             Returned(<<[type |-> "while", condition |-> unparse(while_node.test), body |-> body]>>))

\* out = {...}; if orelse: out["orelse"] = orelse
IfInstruction(condition, body, orelse) ==
    IF orelse # <<>>
    THEN [type |-> "if", condition |-> condition, body |-> body, orelse |-> orelse]
    ELSE [type |-> "if", condition |-> condition, body |-> body]

parse_if(if_node) ==
    IF ~is_boolean_expr(if_node.test)
    THEN RaiseSyntaxError(<<Tok("if condition must be a boolean expression, got: ")>>
                              \o unparse(if_node.test))
    ELSE Try(parse_block(if_node.body), LAMBDA body :
             Try(parse_block(if_node.orelse), LAMBDA orelse :
                 Returned(<<IfInstruction(unparse(if_node.test), body, orelse)>>)))

parse_function(func_node) ==
    Try(parse_block(func_node.body), LAMBDA body :
        Returned(<<[type |-> "function_def", name |-> func_node.name,
                    params |-> func_node.args, body |-> body]>>))

parse_return(return_node) ==
    IF return_node.value = <<>>
    THEN Returned(<<[type |-> "return", value |-> PyNone]>>)
    ELSE IF return_node.value[1].k = "Constant"
         THEN Returned(<<[type |-> "return", value |-> return_node.value[1].value]>>)
         ELSE Returned(<<[type |-> "return", expression |-> unparse(return_node.value[1])]>>)

\* return _with_loc(d, stmt) if d else None, for a call that may have raised
Located(outcome, stmt) ==
    Try(outcome, LAMBDA d : IF d = <<>> THEN ReturnedNone ELSE Returned(<<with_loc(d[1], stmt)>>))

parse_stmt(stmt) ==
    IF stmt.k = "Expr" /\ stmt.value.k = "Constant" /\ IsStr(stmt.value.value)
    THEN Returned(<<with_loc([type |-> "comment_block", text |-> stmt.value.value], stmt)>>)
    ELSE CASE stmt.k = "Expr" ->
                 IF stmt.value.k = "Call"
                 THEN Located(parse_call(stmt.value), stmt)
                 ELSE IF stmt.value.k = "Await" /\ stmt.value.value.k = "Call"
                      THEN Try(parse_call(stmt.value.value), LAMBDA d :
                               IF d = <<>> THEN ReturnedNone
                               ELSE Returned(<<with_loc(d[1] @@ [await |-> TRUE], stmt)>>))
                      ELSE ReturnedNone
           [] stmt.k = "Assign" /\ Len(stmt.targets) = 1 /\ stmt.targets[1].k = "Name" ->
                 Returned(<<with_loc([type |-> "assign", variable |-> stmt.targets[1].id,
                                      expression |-> unparse(stmt.value)], stmt)>>)
           [] stmt.k = "For" -> Located(parse_for(stmt), stmt)
           [] stmt.k = "While" -> Located(parse_while(stmt), stmt)
           [] stmt.k = "If" -> Located(parse_if(stmt), stmt)
           [] stmt.k = "Break" -> Returned(<<with_loc([type |-> "break"], stmt)>>)
           [] stmt.k = "FunctionDef" -> Located(parse_function(stmt), stmt)
           [] stmt.k = "Return" -> Located(parse_return(stmt), stmt)
           [] OTHER -> ReturnedNone

convert_ast_to_instructions(tree) == parse_block(tree.body)

-----------------------------------------------------------------------------
(* Source text.  A source is a sequence of items, one per construct:       *)
(*   [i |-> "comment"]                      a line holding only a comment  *)
(*   [i |-> "stmt", s |-> node, inline |-> b]  a one-line simple statement,*)
(*                                          b: a comment trails the code   *)
(*   [i |-> "block", head |-> node, body |-> items, orelse |-> items]      *)
(*                                          a header line, the indented    *)
(*                                          body, and for a non-empty      *)
(*                                          orelse an else line and its    *)
(*                                          indented items                 *)
(* The statement nodes of items carry no position; parsing lays the items  *)
(* out on physical lines and gives every node its lineno and end_lineno.   *)

CommentItem == [i |-> "comment"]
StmtItem(s) == [i |-> "stmt", s |-> s, inline |-> FALSE]
StmtItemInline(s) == [i |-> "stmt", s |-> s, inline |-> TRUE]
BlockItem(head, body, orelse) == [i |-> "block", head |-> head, body |-> body, orelse |-> orelse]

\* Physical lines: the indent depth, whether the line holds code, and the
\* text of its comment (<<>> when it has none).
CommentLine(ln, indent) == [indent |-> indent, code |-> FALSE, comment |-> <<Tok("# note "), ValTok(PyInt(ln))>>]
CodeLine(ln, indent, inline) ==
    [indent |-> indent, code |-> TRUE,
     comment |-> IF inline THEN <<Tok("# on "), ValTok(PyInt(ln))>> ELSE <<>>]

RECURSIVE Layout(_, _, _)
\* Items laid out from physical line `line` at depth `indent`: the located
\* statement nodes and the physical lines.
Layout(items, line, indent) ==
    IF items = <<>> THEN [stmts |-> <<>>, lines |-> <<>>]
    ELSE LET it == Head(items)
             first ==
                CASE it.i = "comment" ->
                        [stmts |-> <<>>, lines |-> <<CommentLine(line, indent)>>]
                  [] it.i = "stmt" ->
                        [stmts |-> <<it.s @@ Loc(line, line)>>,
                         lines |-> <<CodeLine(line, indent, it.inline)>>]
                  [] it.i = "block" ->
                        LET body == Layout(it.body, line + 1, indent + 1)
                            elseAt == line + 1 + Len(body.lines)
                            orelse == Layout(it.orelse, elseAt + 1, indent + 1)
                            last == IF orelse.stmts # <<>> THEN orelse.stmts[Len(orelse.stmts)]
                                    ELSE body.stmts[Len(body.stmts)]
                            parts == IF it.head.k = "If"
                                     THEN [body |-> body.stmts, orelse |-> orelse.stmts]
                                     ELSE [body |-> body.stmts]
                        IN  [stmts |-> <<(it.head @@ parts) @@ Loc(line, last.end_lineno)>>,
                             lines |-> <<CodeLine(line, indent, FALSE)>> \o body.lines
                                        \o (IF it.orelse # <<>>
                                            THEN <<CodeLine(elseAt, indent, FALSE)>> \o orelse.lines
                                            ELSE <<>>)]
             rest == Layout(Tail(items), line + Len(first.lines), indent)
         IN  [stmts |-> first.stmts \o rest.stmts, lines |-> first.lines \o rest.lines]

\* ast.parse(src): the module node
ast_parse(source) == [k |-> "Module", body |-> Layout(source, 1, 0).stmts]

\* src.splitlines()
splitlines(source) == Layout(source, 1, 0).lines

-----------------------------------------------------------------------------
(* The sources translation runs draw from *)

MaxNest == 2
MaxBlock == 2

MotorCall(obj, method, args) == Call(Attribute(Name(obj), method), args, <<>>)
NameCall(f, args) == Call(Name(f), args, <<>>)

\* Arguments offered to motor_x.start(...) and wait(...)
GatedArgs ==
    { Constant(PyInt(50)), Constant(PyFloat(15000)), Constant(PyStr("fast")), Constant(PyNone),
      UnaryOp("USub", Constant(PyInt(50))), UnaryOp("USub", Constant(PyStr("fast"))),
      Name("x"), BinOp(Name("x"), "Add", Constant(PyInt(5))),
      Call(AllowedCallee, <<>>, <<>>),
      NameCall("foo", <<>>), BoolOp("And", <<Name("x"), Name("y")>>),
      BinOp(Name("x"), "Add", Constant(PyStr("fast"))) }

GatedCalls ==
    { Expr(MotorCall("motor_a", "start", <<a>>)) : a \in GatedArgs }
        \cup { Expr(NameCall("wait", <<a>>)) : a \in GatedArgs }
        \cup { Expr(Await(MotorCall("motor_b", "start", <<NameCall("foo", <<>>)>>))) }

\* Statements of the block family: recognized ones, ones outside the
\* whitelist, one that renders nothing and one that is rejected.
MultiAssign == Assign(<<Name("a"), Name("b")>>, Constant(PyInt(1)))
BlockStmts ==
    { Assign(<<Name("x")>>, Constant(PyInt(5))),
      Expr(MotorCall("motor_a", "stop", <<>>)),
      MultiAssign,
      Expr(MotorCall("ir_sensor", "get_direction", <<>>)),
      Expr(NameCall("wait", <<NameCall("foo", <<>>)>>)) }

BlockItems == { StmtItem(s) : s \in BlockStmts } \cup { CommentItem }

RECURSIVE ItemSeqs(_, _)
\* The sequences of 1..n items drawn from S
ItemSeqs(S, n) ==
    IF n = 0 THEN {}
    ELSE LET shorter == ItemSeqs(S, n - 1)
         IN  { <<x>> : x \in S } \cup shorter \cup { Append(q, x) : q \in shorter, x \in S }

HasStatement(items) == \E i \in DOMAIN items : items[i].i # "comment"

CallCores == { <<StmtItem(s)>> : s \in GatedCalls }

BlockCores == { q \in ItemSeqs(BlockItems, MaxBlock) : HasStatement(q) }

GoodTest == Compare(Name("x"), "Gt", Constant(PyInt(5)))
ArithTest == BinOp(Name("x"), "Add", Constant(PyInt(1)))
CallTest == NameCall("foo", <<>>)
Filler == StmtItem(Assign(<<Name("y")>>, Constant(PyInt(0))))
Stop == StmtItem(Expr(MotorCall("motor_a", "stop", <<>>)))

\* The blocks that hold `block` one level down, one per kind of holder
Wrap(block) ==
    << <<BlockItem(For(Name("i"), NameCall("range", <<Constant(PyInt(3))>>)), block, <<>>)>>,
      <<BlockItem(While(GoodTest), block, <<>>)>>,
      <<BlockItem(While(ArithTest), block, <<>>)>>,
      <<BlockItem(If(UnaryOp("Not", GoodTest)), block, <<>>)>>,
      <<BlockItem(If(CallTest), block, <<>>)>>,
      <<BlockItem(If(Name("ok")), <<Filler>>, block)>>,
      <<BlockItem(FunctionDef("f", <<"p">>), block, <<>>)>>,
      <<BlockItem(With(Name("ctx")), block, <<>>)>>,
      <<Filler, StmtItem(MultiAssign), BlockItem(While(Constant(PyBool(TRUE))), block, <<>>),
        CommentItem, Stop>> >>

RECURSIVE Nested(_, _)
\* The blocks that hold a block of `cores` at most n levels down
Nested(cores, n) ==
    IF n = 0 THEN cores
    ELSE LET inner == Nested(cores, n - 1)
         IN  inner \cup { Wrap(b)[k] : b \in inner, k \in 1..9 }

\* Literal speeds and literal durations (seconds)
Speeds == { Constant(PyInt(50)), UnaryOp("USub", Constant(PyInt(50))), Constant(PyFloat(125000)) }
Durations ==
    { Constant(PyInt(0)), Constant(PyInt(2)), Constant(PyFloat(25000)),
      Constant(PyFloat(15000)), Constant(PyFloat(15)), Constant(PyFloat(20007)), Constant(PyFloat(9)) }

\* Start a motor, wait, stop it: with and without comments around the wait
RoundTrips ==
    UNION { LET start == StmtItem(Expr(MotorCall("motor_a", "start", <<v>>)))
                pause == StmtItem(Expr(NameCall("wait", <<s>>)))
                halt == StmtItemInline(Expr(MotorCall("motor_a", "stop", <<>>)))
            IN  { <<start, pause, halt>>,
                  <<CommentItem, start, CommentItem, pause, CommentItem, CommentItem, halt, CommentItem>> }
          : v \in Speeds, s \in Durations }

\* The zero-argument call obj.method() and an assignment of its result
SensorCall(obj, method) == MotorCall(obj, method, <<>>)
AssignTo(var, value) == StmtItem(Assign(<<Name(var)>>, value))

\* Programs that read sensors: in assignments, in a call's argument, in a
\* printed and in a returned expression
SensorPrograms ==
    { <<StmtItem(Expr(NameCall("foo", <<SensorCall("color_sensor", "get_color")>>)))>>,
      <<StmtItem(Expr(NameCall("foo", <<Constant(PyInt(1)), SensorCall("gyro_sensor", "get_rate")>>)))>>,
      <<AssignTo("x", SensorCall("color_sensor", "get_color")),
        AssignTo("y", NameCall("foo", <<>>)),
        AssignTo("z", SensorCall("distance_sensor", "get_distance")),
        AssignTo("w", SensorCall("gyro_sensor", "get_angle"))>>,
      <<AssignTo("r", SensorCall("color_sensor", "get_reflected_light")),
        AssignTo("v", SensorCall("gyro_sensor", "get_rate")),
        AssignTo("n", NameCall("range", <<Constant(PyInt(3))>>)),
        AssignTo("k", BinOp(Name("x"), "Add", Constant(PyInt(1))))>>,
      <<AssignTo("d", SensorCall("ir_sensor", "get_direction"))>>,
      <<StmtItem(Expr(NameCall("print", <<SensorCall("distance_sensor", "get_distance_cm")>>)))>>,
      <<BlockItem(If(Name("ok")), <<Filler>>,
                  <<BlockItem(While(Compare(SensorCall("color_sensor", "get_color"), "Eq", Constant(PyInt(1)))),
                              <<Stop>>, <<>>)>>)>>,
      <<BlockItem(FunctionDef("f", <<"p">>),
                  <<StmtItem(Return(<<SensorCall("gyro_sensor", "get_angle")>>))>>, <<>>)>> }

\* Programs that use several motor channels
MotorPrograms ==
    { <<StmtItem(Expr(MotorCall("motor_a", "start", <<Constant(PyInt(50))>>))),
        StmtItem(Expr(MotorCall("motor_b", "start", <<Name("x")>>))),
        StmtItem(Expr(MotorCall("motor_b", "stop", <<>>)))>>,
      <<StmtItem(Expr(MotorCall("motor_c", "start", <<Constant(PyInt(50))>>))),
        BlockItem(If(Name("ok")), <<Filler>>, <<StmtItem(Expr(MotorCall("motor_d", "stop", <<>>)))>>)>> }

\* Calls of wait and print with no, with keyword-only and with several
\* arguments
ReservedCalls ==
    { <<StmtItem(Expr(NameCall("wait", <<>>)))>>,
      <<StmtItem(Expr(Call(Name("wait"), <<>>, <<Keyword("seconds", Constant(PyInt(2)))>>)))>>,
      <<StmtItem(Expr(NameCall("print", <<>>))),
        StmtItem(Expr(Call(Name("print"), <<>>, <<Keyword("sep", Constant(PyInt(1)))>>))),
        StmtItem(Expr(NameCall("print", <<Constant(PyInt(1)), Name("x")>>))),
        StmtItem(Expr(NameCall("wait", <<Constant(PyInt(2))>>)))>> }

\* Function bodies that return nothing, a literal and an expression
ReturnPrograms ==
    { <<BlockItem(FunctionDef("f", <<"p">>), <<StmtItem(Return(v))>>, <<>>)>>
        : v \in { <<>>, <<Constant(PyInt(5))>>, <<Constant(PyNone)>>, <<Name("p")>> } }

\* The empty program, and blocks all of whose statements are dropped
HollowPrograms ==
    { <<>>,
      <<StmtItem(MultiAssign)>>,
      <<BlockItem(While(GoodTest), <<StmtItem(Pass)>>, <<>>)>>,
      <<BlockItem(FunctionDef("f", <<>>), <<CommentItem, StmtItem(Pass)>>, <<>>)>>,
      <<BlockItem(If(Name("ok")), <<StmtItem(MultiAssign)>>, <<StmtItem(Pass)>>), Stop>>,
      <<BlockItem(For(Name("i"), NameCall("range", <<Constant(PyInt(3))>>)),
                  <<StmtItem(Expr(MotorCall("gyro_sensor", "reset", <<>>)))>>, <<>>)>> }

\* A commented block two levels down, the outer level being the else branch
\* of an if
CommentedBlock == <<CommentItem, AssignTo("x", Constant(PyInt(5))), CommentItem, Stop>>
ElseNests == { Wrap(Wrap(CommentedBlock)[k])[6] : k \in {1, 2, 4, 6, 7} }

Sources(n) ==
    Nested(CallCores, n) \cup Nested(BlockCores, n - 1) \cup RoundTrips
        \cup SensorPrograms \cup MotorPrograms \cup ReservedCalls \cup ReturnPrograms
        \cup HollowPrograms \cup ElseNests

\* The overrides translation runs draw from
NoOverrides == [x \in {} |-> TRUE]
OverrideChoices == { NoOverrides, [convert_percent_to_dps |-> FALSE] }

-----------------------------------------------------------------------------
(* spike_translation_config.py *)

MOTOR_CONFIG == [max_speed_dps |-> 720, default_speed_dps |-> 360, min_speed_dps |-> 0]

MotorEntry(port, reversed) == [port |-> port, reversed |-> reversed]

MOTOR_MAPPING ==
    [motor_left |-> MotorEntry("port.A", FALSE), motor_right |-> MotorEntry("port.B", FALSE),
     motor_fl |-> MotorEntry("port.A", FALSE), motor_fr |-> MotorEntry("port.B", FALSE),
     motor_bl |-> MotorEntry("port.C", FALSE), motor_br |-> MotorEntry("port.D", FALSE),
     motor_a |-> MotorEntry("port.A", FALSE), motor_b |-> MotorEntry("port.B", FALSE),
     motor_c |-> MotorEntry("port.C", FALSE), motor_d |-> MotorEntry("port.D", FALSE)]

SENSOR_MAPPING == [color_sensor |-> "port.E", distance_sensor |-> "port.F", ir_seeker |-> "port.C"]

\* A lookup whose fallback is no port at all.
get_motor_port_nodefault(motor_name) ==
    IF motor_name \in DOMAIN MOTOR_MAPPING
    THEN MOTOR_MAPPING[motor_name].port
    ELSE "None"

get_motor_port(motor_name) ==
    IF motor_name \in DOMAIN MOTOR_MAPPING
    THEN MOTOR_MAPPING[motor_name].port
    ELSE "port.A"

is_motor_reversed(motor_name) ==
    IF motor_name \in DOMAIN MOTOR_MAPPING
    THEN MOTOR_MAPPING[motor_name].reversed
    ELSE FALSE

\* SENSOR_MAPPING.get(sensor_name, "port.E")
get_sensor_port(sensor_name) ==
    IF sensor_name \in DOMAIN SENSOR_MAPPING THEN SENSOR_MAPPING[sensor_name] ELSE "port.E"

\* None is the empty sequence
SENSOR_IMPORTS ==
    [color_sensor |-> <<Tok("import color_sensor")>>,
     distance_sensor |-> <<Tok("import distance_sensor")>>,
     gyro_sensor |-> <<Tok("from hub import motion_sensor")>>,
     ir_sensor |-> <<>>]

\* The text of a zero-argument call obj.method()
CallText(obj, method) == <<Tok(obj), Tok("."), Tok(method), Tok("("), Tok(")")>>

\* In table order: <<old, new>>
SENSOR_TRANSLATIONS ==
    << <<CallText("distance_sensor", "get_distance"), <<Tok("get_distance"), Tok("("), Tok(")")>> >>,
       <<CallText("distance_sensor", "get_distance_cm"), <<Tok("get_distance"), Tok("("), Tok(")")>> >>,
       <<CallText("color_sensor", "get_reflected_light"),
         <<Tok("color_sensor"), Tok("."), Tok("reflection"), Tok("("), Tok("COLOR_SENSOR"), Tok(")")>> >>,
       <<CallText("color_sensor", "get_color"),
         <<Tok("color_sensor"), Tok("."), Tok("color"), Tok("("), Tok("COLOR_SENSOR"), Tok(")")>> >>,
       <<CallText("ir_sensor", "get_direction"),
         <<Tok("distance_sensor"), Tok("."), Tok("distance"), Tok("("), Tok("IR_SEEKER_PORT"), Tok(")")>> >>,
       <<CallText("ir_sensor", "get_strength"),
         <<Tok("IR_SEEKER_PORT"), Tok("."), Tok("device"), Tok("."), Tok("get"), Tok("("), Tok(")"),
           Tok("["), ValTok(PyInt(2)), Tok("]")>> >>,
       <<CallText("gyro_sensor", "get_angle"),
         <<Tok("motion_sensor"), Tok("."), Tok("tilt_angles"), Tok("("), Tok(")"),
           Tok("["), ValTok(PyInt(0)), Tok("]")>> >>,
       <<CallText("gyro_sensor", "get_rate"),
         <<Tok("motion_sensor"), Tok("."), Tok("angular_velocity"), Tok("("),
           Tok("motion_sensor"), Tok("."), Tok("YAW"), Tok(")")>> >> >>

\* Each note, split into its lines
EDUCATIONAL_NOTES ==
    [ir_sensor |->
        << <<Tok("# IR Seeker Setup:")>>,
           <<Tok("# Building Block Robotics IR Seeker appears as a distance/color sensor")>>,
           <<Tok("# Standard Mode: Use as distance sensor for direction only")>>,
           <<Tok("# Advanced Mode: Use hub.port.X.device for direction + strength")>>,
           <<Tok("# See: https://irseeker.buildingblockrobotics.com/guides/spike-prime")>> >>,
     port_configuration |->
        << <<Tok("# IMPORTANT: Configure ports and directions below to match your robot")>>,
           <<Tok("# If a motor runs backwards, change its REVERSED flag to True")>> >>,
     distance_sensor_helper |->
        << <<Tok("# Distance sensor helper: Returns distance in cm (like Word Blocks)")>>,
           <<Tok("# Spike Prime Python returns mm and -1 when nothing detected")>>,
           <<Tok("# We convert to cm and return 200 when nothing detected")>> >>]

\* The toggle table as the module sets it at import
DefaultToggles ==
    [include_speed_explanation |-> FALSE,
     convert_percent_to_dps |-> TRUE,
     add_type_hints |-> FALSE,
     include_port_config_note |-> TRUE,
     use_single_helper |-> TRUE,
     include_distance_helper |-> TRUE]

-----------------------------------------------------------------------------
(* spike_generator.py *)

\* A generated line: the indent depth and the text after the indent.
Line(level, text) == [indent |-> level, text |-> text]
BlankLine == Line(0, <<>>)

\* str(value) inside an f-string, against ValTok for repr(value)
StrTok(v) == [str |-> v]

\* A constructor that merges the overrides into the shared table itself.
SpikeCodeGenerator_init_shared(table, config_overrides) ==
    [config |-> config_overrides @@ table, GENERATION_CONFIG |-> config_overrides @@ table]

\* self.config = {**GENERATION_CONFIG, **(config_overrides or {})}: the
\* instance's own merged copy and the table it was merged from.
SpikeCodeGenerator_init(table, config_overrides) ==
    [config |-> config_overrides @@ table, GENERATION_CONFIG |-> table]

\* config.get(key) / config.get(key, default)
ConfigGet(config, key, default) == IF key \in DOMAIN config THEN config[key] ELSE default

collect_comments(source) ==
    LET src_lines == splitlines(source)
    IN  [standalone |-> {ln \in DOMAIN src_lines : ~src_lines[ln].code /\ src_lines[ln].comment # <<>>},
         inline |-> [ln \in {l \in DOMAIN src_lines : src_lines[l].code /\ src_lines[l].comment # <<>>}
                        |-> <<src_lines[ln].comment>>],
         src_lines |-> src_lines]

\* Whether `old` occurs in text at position i
MatchesAt(text, old, i) ==
    /\ i + Len(old) - 1 <= Len(text)
    /\ \A j \in 1..Len(old) : text[i + j - 1] = old[j]

RECURSIVE Replace(_, _, _)
\* text.replace(old, new): every occurrence, left to right, not overlapping
Replace(text, old, new) ==
    IF text = <<>> THEN <<>>
    ELSE IF MatchesAt(text, old, 1)
         THEN new \o Replace(SubSeq(text, Len(old) + 1, Len(text)), old, new)
         ELSE <<Head(text)>> \o Replace(Tail(text), old, new)

RECURSIVE TranslateFrom(_, _)
TranslateFrom(result, i) ==
    IF i > Len(SENSOR_TRANSLATIONS) THEN result
    ELSE TranslateFrom(Replace(result, SENSOR_TRANSLATIONS[i][1], SENSOR_TRANSLATIONS[i][2]), i + 1)

RECURSIVE TranslateDownFrom(_, _)
TranslateDownFrom(result, i) ==
    IF i < 1 THEN result
    ELSE TranslateDownFrom(Replace(result, SENSOR_TRANSLATIONS[i][1], SENSOR_TRANSLATIONS[i][2]), i - 1)

\* The table applied last entry first
translate_expression_backwards(text) == TranslateDownFrom(text, Len(SENSOR_TRANSLATIONS))

translate_expression(text) == TranslateFrom(text, 1)

\* needle in word: the word itself, or a longer word the model uses that
\* has it as a substring
Within(needle, word) ==
    \/ needle = word
    \/ needle = "get_distance" /\ word = "get_distance_cm"

\* needle in text, for a needle that is one word
TextContains(text, needle) ==
    \E i \in DOMAIN text : "s" \in DOMAIN text[i] /\ Within(needle, text[i].s)

\* d.get("lineno") or default
LinenoOr(d, default) == IF "lineno" \in DOMAIN d /\ d.lineno # 0 THEN d.lineno ELSE default
EndLinenoOr(d, default) == IF "end_lineno" \in DOMAIN d /\ d.end_lineno # 0 THEN d.end_lineno ELSE default

\* d.get(key, [])
BlockOf(d, key) == IF key \in DOMAIN d THEN d[key] ELSE <<>>

IsCompound(instr) == instr.type \in {"for", "while", "if", "function_def"}

RECURSIVE get_used_motors(_)
get_used_motors(instructions) ==
    UNION { (IF instructions[i].type \in {"motor_start", "motor_stop"}
             THEN {instructions[i].motor} ELSE {})
            \cup (IF IsCompound(instructions[i])
                  THEN get_used_motors(BlockOf(instructions[i], "body"))
                          \cup get_used_motors(BlockOf(instructions[i], "orelse"))
                  ELSE {})
          : i \in DOMAIN instructions }

RECURSIVE uses_sensor(_, _)
uses_sensor(instructions, sensor_name) ==
    \E i \in DOMAIN instructions :
        LET instr == instructions[i]
        IN  \/ instr.type \in {"ir_direction", "ir_strength"} /\ sensor_name = "ir_sensor"
            \/ \E key \in {"expression", "speed_expr", "seconds_expr", "condition", "iter"} :
                  key \in DOMAIN instr /\ TextContains(instr[key], sensor_name)
            \/ /\ IsCompound(instr)
               /\ \/ uses_sensor(BlockOf(instr, "body"), sensor_name)
                  \/ uses_sensor(BlockOf(instr, "orelse"), sensor_name)

\* motor_name.upper()
Upper(motor_name) ==
    CASE motor_name = "a" -> "A" [] motor_name = "b" -> "B"
      [] motor_name = "c" -> "C" [] motor_name = "d" -> "D"

\* A rounding slip: the quotient rounded to the nearest integer.
RoundDiv(a, b) == IF a >= 0 THEN (2 * a + b) \div (2 * b) ELSE 0 - ((2 * (0 - a) + b) \div (2 * b))

\* int(a / b) for integers a and b > 0: the quotient truncated toward zero
TruncDiv(a, b) == IF a >= 0 THEN a \div b ELSE 0 - ((0 - a) \div b)

\* int(seconds * 1000): the milliseconds, or the exception the conversion
\* raises for a value that is no real number
IntMillis(seconds) ==
    CASE seconds.t \in {"int", "bool"} -> [exc |-> "none", ms |-> seconds.n * 1000]
      [] seconds.t = "float" -> [exc |-> "none", ms |-> TruncDiv(seconds.n * 1000, FloatScale)]
      [] seconds.t = "str" -> [exc |-> "ValueError", ms |-> 0]
      [] OTHER -> [exc |-> "TypeError", ms |-> 0]

Emitted(lines) == [exc |-> "none", lines |-> lines]
Failed(exc) == [exc |-> exc, lines |-> <<>>]

\* The standalone comment lines ln with from <= ln < to, re-indented
RECURSIVE StandaloneLines(_, _, _, _)
StandaloneLines(self, from, to, level) ==
    IF from >= to THEN <<>>
    ELSE (IF from \in self.standalone THEN <<Line(level, self.src_lines[from].comment)>> ELSE <<>>)
            \o StandaloneLines(self, from + 1, to, level)

Min(a, b) == IF a <= b THEN a ELSE b
Max(a, b) == IF a >= b THEN a ELSE b

emit_standalone_between(self, start_line, end_exclusive, level) ==
    StandaloneLines(self, start_line, Min(end_exclusive, Len(self.src_lines) + 1), level)

\* lines[-1] = lines[-1] + "  " + "  ".join(self._inline[L])
WithInline(self, lines, L) ==
    IF lines # <<>> /\ L \in DOMAIN self.inline
    THEN [lines EXCEPT ![Len(lines)].text = @ \o <<Tok("  ")>> \o self.inline[L][1]]
    ELSE lines

ReversedName(const_name) ==
    CASE const_name = "A" -> "A_REVERSED" [] const_name = "B" -> "B_REVERSED"
      [] const_name = "C" -> "C_REVERSED" [] const_name = "D" -> "D_REVERSED"

\* motor.run(CONST, helper(arg, CONST_REVERSED))
MotorRunText(const_name, helper, arg) ==
    <<Tok("motor"), Tok("."), Tok("run"), Tok("("), Tok(const_name), Tok(", "), Tok(helper), Tok("(")>>
        \o arg \o <<Tok(", "), Tok(ReversedName(const_name)), Tok(")"), Tok(")")>>

MotorStopText(const_name) == <<Tok("motor"), Tok("."), Tok("stop"), Tok("("), Tok(const_name), Tok(")")>>

\* await runloop.sleep_ms(arg)
SleepText(arg) ==
    <<Tok("await "), Tok("runloop"), Tok("."), Tok("sleep_ms"), Tok("(")>> \o arg \o <<Tok(")")>>

\* ", ".join(parts)
RECURSIVE JoinComma(_)
JoinComma(parts) ==
    IF parts = <<>> THEN <<>>
    ELSE Head(parts) \o (IF Len(parts) > 1 THEN <<Tok(", ")>> ELSE <<>>) \o JoinComma(Tail(parts))

\* The getters whose presence in an assigned expression suppresses await
KnownGetters == {"get_distance", "get_color", "get_reflected_light", "get_angle", "get_rate", "range"}

\* What follows a call that may raise: the exception propagates, otherwise
\* Then continues with the result.
TryLines(result, Then(_)) == IF result.exc # "none" THEN Failed(result.exc) ELSE Then(result)

RECURSIVE generate_instruction(_, _, _)
RECURSIVE emit_block(_, _, _, _)
RECURSIVE emit_children(_, _, _, _)
RECURSIVE emit_orelse(_, _, _)

\* _emit_child_instr: the child's lines and the line after the child
emit_child_instr(self, child, level) ==
    TryLines(generate_instruction(self, child, level), LAMBDA child_lines :
        [exc |-> "none",
         lines |-> WithInline(self, child_lines.lines, LinenoOr(child, 0)),
         next |-> EndLinenoOr(child, LinenoOr(child, 0)) + 1])

\* The loop of _emit_block over the children, from block_cursor on
emit_children(self, children, block_cursor, level) ==
    IF children = <<>> THEN [exc |-> "none", lines |-> <<>>, cursor |-> block_cursor]
    ELSE TryLines(emit_child_instr(self, Head(children), level), LAMBDA done :
             TryLines(emit_children(self, Tail(children), done.next, level), LAMBDA rest :
                 [exc |-> "none",
                  lines |-> emit_standalone_between(self, block_cursor,
                                                    LinenoOr(Head(children), block_cursor), level)
                               \o done.lines \o rest.lines,
                  cursor |-> rest.cursor]))

\* _emit_block(header_line, instr), entered at indent depth level
emit_block(self, header_line, instr, level) ==
    TryLines(emit_children(self, BlockOf(instr, "body"), LinenoOr(instr, 0) + 1, level + 1), LAMBDA body :
        Emitted(<<Line(level, header_line)>> \o body.lines
                   \o emit_standalone_between(self, body.cursor,
                                              EndLinenoOr(instr, body.cursor) + 1, level + 1)))

\* The loop over instr["orelse"]: no comments are interleaved
emit_orelse(self, orelse, level) ==
    IF orelse = <<>> THEN Emitted(<<>>)
    ELSE TryLines(generate_instruction(self, Head(orelse), level), LAMBDA first :
             TryLines(emit_orelse(self, Tail(orelse), level), LAMBDA rest :
                 Emitted(first.lines \o rest.lines)))

\* _generate_instruction(instr) at indent depth level (self.indent_level)
generate_instruction(self, instr, level) ==
    LET convert == ConfigGet(self.config, "convert_percent_to_dps", FALSE)
    IN  CASE instr.type = "motor_start" ->
                LET const_name == Upper(instr.motor)
                IN  IF "speed" \in DOMAIN instr
                    THEN IF convert
                         THEN Emitted(<<Line(level, MotorRunText(const_name, "percent_to_dps", <<StrTok(instr.speed)>>))>>)
                         ELSE Emitted(<<Line(level, MotorRunText(const_name, "apply_direction", <<StrTok(instr.speed)>>))>>)
                    ELSE IF "speed_expr" \in DOMAIN instr
                    THEN LET e == translate_expression(instr.speed_expr)
                         IN  IF convert
                             THEN Emitted(<<Line(level, MotorRunText(const_name, "percent_to_dps", e))>>)
                             ELSE Emitted(<<Line(level, MotorRunText(const_name, "apply_direction",
                                                        <<Tok("int"), Tok("(")>> \o e \o <<Tok(")")>>))>>)
                    ELSE Emitted(<<>>)
          [] instr.type = "motor_stop" ->
                Emitted(<<Line(level, MotorStopText(Upper(instr.motor)))>>)
          [] instr.type = "wait" ->
                IF "seconds" \in DOMAIN instr
                THEN LET ms == IntMillis(instr.seconds)
                     IN  IF ms.exc # "none" THEN Failed(ms.exc)
                         ELSE Emitted(<<Line(level, SleepText(<<StrTok(PyInt(ms.ms))>>))>>)
                ELSE IF "seconds_expr" \in DOMAIN instr
                THEN Emitted(<<Line(level, SleepText(<<Tok("int"), Tok("(")>>
                                    \o translate_expression(instr.seconds_expr)
                                    \o <<Tok(" * 1000"), Tok(")")>>))>>)
                ELSE Emitted(<<>>)
          [] instr.type = "print" ->
                IF "message" \in DOMAIN instr
                THEN Emitted(<<Line(level, <<Tok("print"), Tok("("), ValTok(instr.message), Tok(")")>>)>>)
                ELSE IF "expression" \in DOMAIN instr
                THEN Emitted(<<Line(level, <<Tok("print"), Tok("(")>>
                                    \o translate_expression(instr.expression) \o <<Tok(")")>>)>>)
                ELSE Emitted(<<>>)
          [] instr.type = "assign" ->
                LET e == translate_expression(instr.expression)
                IN  IF TextContains(e, "(") /\ ~\E g \in KnownGetters : TextContains(e, g)
                    THEN Emitted(<<Line(level, <<Tok(instr.variable), Tok(" = "), Tok("await ")>> \o e)>>)
                    ELSE Emitted(<<Line(level, <<Tok(instr.variable), Tok(" = ")>> \o e)>>)
          [] instr.type = "for" ->
                emit_block(self, <<Tok("for ")>> \o instr.target \o <<Tok(" in ")>>
                                    \o translate_expression(instr.iter) \o <<Tok(":")>>, instr, level)
          [] instr.type = "while" ->
                emit_block(self, <<Tok("while ")>> \o translate_expression(instr.condition) \o <<Tok(":")>>,
                           instr, level)
          [] instr.type = "if" ->
                TryLines(emit_block(self, <<Tok("if ")>> \o translate_expression(instr.condition)
                                              \o <<Tok(":")>>, instr, level), LAMBDA body :
                    IF "orelse" \in DOMAIN instr /\ instr.orelse # <<>>
                    THEN TryLines(emit_orelse(self, instr.orelse, level + 1), LAMBDA orelse :
                             Emitted(body.lines \o <<Line(level, <<Tok("else:")>>)>> \o orelse.lines))
                    ELSE body)
          [] instr.type = "break" -> Emitted(<<Line(level, <<Tok("break")>>)>>)
          [] instr.type = "function_def" ->
                TryLines(emit_block(self, <<Tok("async def "), Tok(instr.name), Tok("(")>>
                                              \o JoinComma([i \in DOMAIN instr.params |-> <<Tok(instr.params[i])>>])
                                              \o <<Tok(")"), Tok(":")>>, instr, level), LAMBDA block :
                    Emitted(Append(block.lines, BlankLine)))
          [] instr.type = "return" ->
                IF "value" \in DOMAIN instr /\ instr.value # PyNone
                THEN Emitted(<<Line(level, <<Tok("return "), ValTok(instr.value)>>)>>)
                ELSE IF "expression" \in DOMAIN instr
                THEN Emitted(<<Line(level, <<Tok("return ")>> \o translate_expression(instr.expression))>>)
                ELSE Emitted(<<Line(level, <<Tok("return")>>)>>)
          [] instr.type = "function_call" ->
                LET args == [i \in DOMAIN instr.args |->
                                IF instr.args[i].type = "constant"
                                THEN <<ValTok(instr.args[i].value)>>
                                ELSE translate_expression(instr.args[i].value)]
                IN  Emitted(<<Line(level, <<Tok("await "), Tok(instr.name), Tok("(")>>
                                            \o JoinComma(args) \o <<Tok(")")>>)>>)
          [] OTHER -> Emitted(<<>>)

\* The key the instructions are sorted by
SortKey(d) == <<LinenoOr(d, 10^9), EndLinenoOr(d, 10^9)>>
KeyLessEq(a, b) == a[1] < b[1] \/ (a[1] = b[1] /\ a[2] <= b[2])

RECURSIVE Sorted(_)
\* sorted(instructions, key=...): ascending and stable
Sorted(instructions) ==
    IF instructions = <<>> THEN <<>>
    ELSE LET n == Len(instructions)
             x == instructions[n]
             front == Sorted(SubSeq(instructions, 1, n - 1))
             before == SelectSeq(front, LAMBDA y : KeyLessEq(SortKey(y), SortKey(x)))
             after == SelectSeq(front, LAMBDA y : ~KeyLessEq(SortKey(y), SortKey(x)))
         IN  before \o <<x>> \o after

TextLines(texts) == [i \in DOMAIN texts |-> Line(0, texts[i])]

\* The lines generate() writes before the body
Preamble(self, instructions) ==
    LET used_motors == get_used_motors(instructions)
        uses_color == uses_sensor(instructions, "color_sensor")
        uses_distance == uses_sensor(instructions, "distance_sensor")
        uses_ir == uses_sensor(instructions, "ir_sensor")
        uses_gyro == uses_sensor(instructions, "gyro_sensor")
        MotorLines(m) ==
            <<Line(0, <<Tok(Upper(m)), Tok(" = "), Tok(get_motor_port(m))>>),
              Line(0, <<Tok(ReversedName(Upper(m))), Tok(" = "), ValTok(PyBool(is_motor_reversed(m)))>>)>>
        When(c, lines) == IF c THEN lines ELSE <<>>
    IN  <<Line(0, <<Tok("from hub import light_matrix, port")>>),
          Line(0, <<Tok("import runloop")>>),
          Line(0, <<Tok("import motor")>>)>>
        \o When(uses_color /\ SENSOR_IMPORTS.color_sensor # <<>>, <<Line(0, SENSOR_IMPORTS.color_sensor)>>)
        \o When(uses_distance /\ SENSOR_IMPORTS.distance_sensor # <<>>, <<Line(0, SENSOR_IMPORTS.distance_sensor)>>)
        \o When(uses_gyro /\ SENSOR_IMPORTS.gyro_sensor # <<>>, <<Line(0, SENSOR_IMPORTS.gyro_sensor)>>)
        \o When(uses_ir /\ SENSOR_IMPORTS.ir_sensor # <<>>, <<Line(0, SENSOR_IMPORTS.ir_sensor)>>)
        \o When(uses_ir, <<BlankLine>> \o TextLines(EDUCATIONAL_NOTES.ir_sensor))
        \o When(used_motors # {} /\ ConfigGet(self.config, "convert_percent_to_dps", FALSE),
              <<BlankLine,
                Line(0, <<Tok("# Helper function for motor control")>>),
                Line(0, <<Tok("def "), Tok("percent_to_dps"), Tok("(percent, reversed=False):")>>),
                Line(1, <<Tok("\"\"\"Convert -100 to 100% to degrees per second, applying direction.\"\"\"")>>),
                Line(1, <<Tok("# Clamp to -100 to 100 range")>>),
                Line(1, <<Tok("speed = int(max(-100, min(100, percent)) * "),
                          StrTok(PyInt(MOTOR_CONFIG.max_speed_dps)), Tok(" / 100)")>>),
                Line(1, <<Tok("return -speed if reversed else speed")>>)>>)
        \o When(uses_distance /\ ConfigGet(self.config, "include_distance_helper", TRUE),
              <<BlankLine>> \o TextLines(EDUCATIONAL_NOTES.distance_sensor_helper)
                \o <<Line(0, <<Tok("def "), Tok("get_distance"), Tok("():")>>),
                     Line(1, <<Tok("\"\"\"Get distance in cm, returns 200 when nothing detected.\"\"\"")>>),
                     Line(1, <<Tok("dist = "), Tok("distance_sensor"), Tok("."), Tok("distance"), Tok("("),
                               Tok("DISTANCE_SENSOR"), Tok(")")>>),
                     Line(1, <<Tok("if dist == -1:")>>),
                     Line(2, <<Tok("return 200")>>),
                     Line(1, <<Tok("return dist / 10")>>)>>)
        \o <<BlankLine>>
        \o When(ConfigGet(self.config, "include_port_config_note", FALSE),
              TextLines(EDUCATIONAL_NOTES.port_configuration) \o <<BlankLine>>)
        \o <<Line(0, <<Tok("# Motor configuration")>>)>>
        \o When("a" \in used_motors, MotorLines("a")) \o When("b" \in used_motors, MotorLines("b"))
        \o When("c" \in used_motors, MotorLines("c")) \o When("d" \in used_motors, MotorLines("d"))
        \o When(uses_color \/ uses_distance \/ uses_ir,
              <<BlankLine, Line(0, <<Tok("# Sensor configuration")>>)>>)
        \o When(uses_color, <<Line(0, <<Tok("COLOR_SENSOR"), Tok(" = "), Tok(get_sensor_port("color_sensor"))>>)>>)
        \o When(uses_distance, <<Line(0, <<Tok("DISTANCE_SENSOR"), Tok(" = "), Tok(get_sensor_port("distance_sensor"))>>)>>)
        \o When(uses_ir, <<Line(0, <<Tok("IR_SEEKER_PORT"), Tok(" = "), Tok(get_sensor_port("ir_seeker"))>>)>>)
        \o <<BlankLine, Line(0, <<Tok("async def main():")>>)>>

\* A cursor that passes the comments without emitting them.
skip_standalone_until(self, cursor, line_exclusive) ==
    [lines |-> <<>>, cursor |-> IF cursor >= line_exclusive THEN cursor ELSE line_exclusive]

\* emit_standalone_until(line_exclusive): the lines emitted and the cursor after
emit_standalone_until(self, cursor, line_exclusive) ==
    LET stop == Max(cursor, Min(line_exclusive, Len(self.src_lines) + 1))
    IN  [lines |-> StandaloneLines(self, cursor, stop, 1), cursor |-> stop]

RECURSIVE EmitTop(_, _, _)
\* The loop of generate() over the sorted instructions, from cursor on
EmitTop(self, instrs, cursor) ==
    IF instrs = <<>>
    THEN Emitted(emit_standalone_until(self, cursor, Len(self.src_lines) + 1).lines)
    ELSE LET instr == Head(instrs)
             L == LinenoOr(instr, cursor)
             before == emit_standalone_until(self, cursor, L)
         IN  TryLines(generate_instruction(self, instr, 1), LAMBDA emitted :
                 TryLines(EmitTop(self, Tail(instrs), Max(before.cursor, EndLinenoOr(instr, L) + 1)),
                          LAMBDA rest :
                              Emitted(before.lines \o WithInline(self, emitted.lines, L) \o rest.lines)))

\* The body of main(): what generate() collects in `out`
Body(self, instructions) == EmitTop(self, Sorted(instructions), 1)

Trailer == <<BlankLine, Line(0, <<Tok("runloop.run(main())")>>)>>

\* generate(instructions, src) on an instance whose config is `config`
generate(config, instructions, source) ==
    LET self == collect_comments(source) @@ [config |-> config]
    IN  TryLines(Body(self, instructions), LAMBDA body :
            Emitted(Preamble(self, instructions) \o body.lines \o Trailer))

-----------------------------------------------------------------------------
(* Validator runs: an expression is drawn, then each grammar decides it. *)

MaxDepth == 2

ExprLeaves ==
    { Constant(PyInt(5)), Constant(PyFloat(15000)), Constant(PyStr("fast")),
      Constant(PyBool(TRUE)), Name("x"),
      Call(AllowedCallee, <<>>, <<>>),
      Call(Attribute(Name("gyro_sensor"), "reset"), <<>>, <<>>),
      Call(Name("foo"), <<>>, <<>>) }

\* The composite expressions that have c as an immediate child, one per shape
ExprWrap(c) ==
    << UnaryOp("USub", c), UnaryOp("UAdd", c), UnaryOp("Not", c), UnaryOp("Invert", c),
      BinOp(c, "Add", Name("x")), BinOp(Name("x"), "Sub", c), BinOp(c, "Mult", Name("x")),
      BinOp(Name("x"), "Div", c), BinOp(c, "Mod", Name("x")),
      BoolOp("And", <<c, Name("x")>>), BoolOp("Or", <<Name("x"), c>>),
      Compare(c, "Gt", Name("x")),
      Subscript(Name("x"), c), Subscript(c, Name("x")),
      Call(AllowedCallee, <<c>>, <<>>),
      Call(AllowedCallee, <<>>, <<Keyword("unit", c)>>),
      Call(Name("foo"), <<c>>, <<>>) >>

RECURSIVE ExprsUpTo(_)
ExprsUpTo(d) ==
    IF d = 0 THEN ExprLeaves
    ELSE LET inner == ExprsUpTo(d - 1)
         IN  inner \cup { ExprWrap(c)[k] : c \in inner, k \in 1..17 }


Unset == "unset"
Answer(b) == IF b THEN "accept" ELSE "reject"

CheckNumeric ==
    /\ pc = "validate"
    /\ verdict.numeric = Unset
    /\ verdict' = [verdict EXCEPT !.numeric = Answer(is_numeric_expr(expr))]
    /\ UNCHANGED <<expr, src, pc, ir, out, GENERATION_CONFIG, generators, name, looked>>

CheckBoolean ==
    /\ pc = "validate"
    /\ verdict.boolean = Unset
    /\ verdict' = [verdict EXCEPT !.boolean = Answer(is_boolean_expr(expr))]
    /\ UNCHANGED <<expr, src, pc, ir, out, GENERATION_CONFIG, generators, name, looked>>

-----------------------------------------------------------------------------
(* The shapes the claims about the grammars speak of *)

\* Built from numeric literals, bare identifiers, unary +/-, binary + - * /
\* and allow-listed sensor calls whose arguments are built the same way.
RECURSIVE NumericBuilt(_)
NumericBuilt(e) ==
    CASE e.k = "Constant" -> e.value.t \in {"int", "float"}
      [] e.k = "Name" -> TRUE
      [] e.k = "UnaryOp" -> e.op \in {"UAdd", "USub"} /\ NumericBuilt(e.operand)
      [] e.k = "BinOp" -> e.op \in {"Add", "Sub", "Mult", "Div"} /\ NumericBuilt(e.left) /\ NumericBuilt(e.right)
      [] e.k = "Call" ->
            /\ DottedPath(e.func) \in ALLOWED_ATTR_CALLS
            /\ \A i \in DOMAIN e.args : NumericBuilt(e.args[i])
            /\ \A i \in DOMAIN e.keywords : NumericBuilt(e.keywords[i].value)
      [] OTHER -> FALSE

\* The immediate subexpressions of a node.
Children(e) ==
    CASE e.k = "UnaryOp" -> {e.operand}
      [] e.k = "BinOp" -> {e.left, e.right}
      [] e.k = "BoolOp" -> {e.values[i] : i \in DOMAIN e.values}
      [] e.k = "Compare" -> {e.left} \cup {e.comparators[i] : i \in DOMAIN e.comparators}
      [] e.k = "Subscript" -> {e.value, e.slice}
      [] e.k = "Attribute" -> {e.value}
      [] e.k = "Await" -> {e.value}
      [] e.k = "Call" -> {e.func} \cup {e.args[i] : i \in DOMAIN e.args}
                            \cup {e.keywords[i].value : i \in DOMAIN e.keywords}
      [] OTHER -> {}

\* A call outside the allow-list, a string literal or a boolean operator
\* at any nesting depth.
RECURSIVE ContainsForbidden(_)
ContainsForbidden(e) ==
    \/ e.k = "Call" /\ DottedPath(e.func) \notin ALLOWED_ATTR_CALLS
    \/ e.k = "Constant" /\ e.value.t = "str"
    \/ e.k = "BoolOp"
    \/ e.k = "UnaryOp" /\ e.op = "Not"
    \/ \E c \in Children(e) : ContainsForbidden(c)

\* Built from boolean literals, bare identifiers, comparisons and
\* and/or/not combinations of expressions built the same way.
RECURSIVE BooleanBuilt(_)
BooleanBuilt(e) ==
    CASE e.k = "Constant" -> e.value.t = "bool"
      [] e.k = "Name" -> TRUE
      [] e.k = "Compare" -> TRUE
      [] e.k = "BoolOp" -> e.op \in {"And", "Or"} /\ \A i \in DOMAIN e.values : BooleanBuilt(e.values[i])
      [] e.k = "UnaryOp" -> e.op = "Not" /\ BooleanBuilt(e.operand)
      [] OTHER -> FALSE

\* An arithmetic-only expression: a number or an arithmetic operation.
ArithmeticOnly(e) ==
    \/ e.k = "Constant" /\ e.value.t \in {"int", "float"}
    \/ e.k = "BinOp"
    \/ e.k = "UnaryOp" /\ e.op \in {"UAdd", "USub", "Invert"}

\* An expression that is a call outside the allow-list.
DisallowedCall(e) == e.k = "Call" /\ DottedPath(e.func) \notin ALLOWED_ATTR_CALLS

RECURSIVE Depth(_)
Depth(e) ==
    IF Children(e) = {} THEN 0
    ELSE 1 + CHOOSE m \in 0..10 : /\ \E c \in Children(e) : Depth(c) = m
                                  /\ \A c \in Children(e) : Depth(c) <= m

\* C4 (as stated): the numeric-expression grammar accepts every expression
\* built from numeric literals, identifiers, unary +/-, binary + - * / and
\* allow-listed sensor calls over such arguments, and rejects every
\* expression that contains, at any depth, a call outside the allow-list, a
\* string literal or a boolean operator.
C4_NumericGrammar ==
    verdict.numeric # Unset =>
        /\ NumericBuilt(expr) => verdict.numeric = "accept"
        /\ ContainsForbidden(expr) => verdict.numeric = "reject"

\* C5: the boolean-expression grammar accepts every expression built from
\* boolean literals, identifiers, comparisons and and/or/not combinations of
\* accepted expressions, and rejects every arithmetic-only expression and
\* every expression that is a disallowed call.
C5_BooleanGrammar ==
    verdict.boolean # Unset =>
        /\ BooleanBuilt(expr) => verdict.boolean = "accept"
        /\ ArithmeticOnly(expr) \/ DisallowedCall(expr) => verdict.boolean = "reject"

\* C5 witness: a nested and/or/not combination has been accepted and an
\* arithmetic-only expression has been decided too.
C5_Witness ==
    /\ verdict.boolean = "accept"
    /\ expr.k = "BoolOp"
    /\ \E i \in DOMAIN expr.values : expr.values[i].k = "UnaryOp" /\ expr.values[i].op = "Not"


-----------------------------------------------------------------------------
(* Values of the variables a run does not use *)

NoExpr == Name("")
NoVerdict == [numeric |-> Unset, boolean |-> Unset]
NoSource == <<>>
NoOutcome == [exc |-> "none", msg |-> <<>>, lineno |-> PyNone, instructions |-> <<>>]
NoOutput == [exc |-> "none", lines |-> <<>>]
NoLookups == [port |-> <<>>, reversed |-> <<>>, sensor |-> <<>>]

InitExpr ==
    /\ expr \in ExprsUpTo(MaxDepth)
    /\ verdict = NoVerdict
    /\ pc = "validate"
    /\ src = NoSource
    /\ ir = NoOutcome
    /\ out = NoOutput
    /\ GENERATION_CONFIG = DefaultToggles
    /\ generators = <<>>
    /\ name = ""
    /\ looked = NoLookups

NextExpr == CheckNumeric \/ CheckBoolean

SpecExpr == InitExpr /\ [][NextExpr]_vars


-----------------------------------------------------------------------------
(* Translation runs: a source is drawn, recognized and, when recognition   *)
(* returned instructions, generated.                                       *)

Outcome(r) == [exc |-> r.exc, msg |-> r.msg, lineno |-> r.lineno, instructions |-> r.val]

\* tree = ast.parse(code); instructions = convert_ast_to_instructions(tree)
Recognize ==
    /\ pc = "start"
    /\ ir' = Outcome(convert_ast_to_instructions(ast_parse(src)))
    /\ pc' = IF ir'.exc # "none" THEN "failed" ELSE "recognized"
    /\ UNCHANGED <<expr, verdict, src, out, GENERATION_CONFIG, generators, name, looked>>

\* generate_spike_code(instructions, src, config_overrides)
Generate ==
    /\ pc = "recognized"
    /\ \E config_overrides \in OverrideChoices :
          LET generator == SpikeCodeGenerator_init(GENERATION_CONFIG, config_overrides)
          IN  /\ out' = generate(generator.config, ir.instructions, src)
              /\ GENERATION_CONFIG' = generator.GENERATION_CONFIG
    /\ pc' = "generated"
    /\ UNCHANGED <<expr, verdict, src, ir, generators, name, looked>>

Init ==
    /\ src \in Sources(MaxNest)
    /\ pc = "start"
    /\ ir = NoOutcome
    /\ out = NoOutput
    /\ expr = NoExpr
    /\ verdict = NoVerdict
    /\ GENERATION_CONFIG = DefaultToggles
    /\ generators = <<>>
    /\ name = ""
    /\ looked = NoLookups

Next == Recognize \/ Generate

Spec == Init /\ [][Next]_vars

-----------------------------------------------------------------------------
(* Service runs: after recognition, requests to generate arrive with their *)
(* overrides; each constructs its generator and later generates with it,   *)
(* in any interleaving.                                                    *)

MaxRequests == 3

ServiceSources ==
    { <<StmtItem(Expr(MotorCall("motor_a", "start", <<Constant(PyInt(50))>>))),
        StmtItem(Assign(<<Name("d")>>, Call(AllowedCallee, <<>>, <<>>)))>>,
      <<CommentItem, StmtItem(Expr(MotorCall("motor_b", "start", <<Name("x")>>)))>> }

ServiceOverrides ==
    OverrideChoices
        \cup { [include_distance_helper |-> FALSE],
               [convert_percent_to_dps |-> FALSE, include_port_config_note |-> FALSE] }

\* generator = SpikeCodeGenerator(config_overrides)
Construct ==
    /\ pc = "recognized"
    /\ Len(generators) < MaxRequests
    /\ \E config_overrides \in ServiceOverrides :
          LET generator == SpikeCodeGenerator_init(GENERATION_CONFIG, config_overrides)
          IN  /\ generators' = Append(generators, [overrides |-> config_overrides,
                                                   config |-> generator.config,
                                                   returned |-> <<>>])
              /\ GENERATION_CONFIG' = generator.GENERATION_CONFIG
    /\ UNCHANGED <<expr, verdict, src, pc, ir, out, name, looked>>

\* return generator.generate(instructions, src)
Serve ==
    /\ \E i \in DOMAIN generators :
          /\ generators[i].returned = <<>>
          /\ generators' = [generators EXCEPT
                               ![i].returned = <<generate(generators[i].config, ir.instructions, src)>>]
    /\ UNCHANGED <<expr, verdict, src, pc, ir, out, GENERATION_CONFIG, name, looked>>

InitSvc ==
    /\ src \in ServiceSources
    /\ pc = "start"
    /\ ir = NoOutcome
    /\ out = NoOutput
    /\ expr = NoExpr
    /\ verdict = NoVerdict
    /\ GENERATION_CONFIG = DefaultToggles
    /\ generators = <<>>
    /\ name = ""
    /\ looked = NoLookups

NextSvc == Recognize \/ Construct \/ Serve

SpecSvc == InitSvc /\ [][NextSvc]_vars

-----------------------------------------------------------------------------
(* Lookup runs: a device name is drawn and the three lookups are made on it *)

DeviceNames ==
    DOMAIN MOTOR_MAPPING \cup DOMAIN SENSOR_MAPPING
        \cup {"a", "b", "c", "d", "motor_e", "Motor_A", "gyro_sensor", "ir_sensor", "color", ""}

LookupMotorPort ==
    /\ looked.port = <<>>
    /\ looked' = [looked EXCEPT !.port = <<get_motor_port(name)>>]
    /\ UNCHANGED <<expr, verdict, src, pc, ir, out, GENERATION_CONFIG, generators, name>>

LookupMotorReversed ==
    /\ looked.reversed = <<>>
    /\ looked' = [looked EXCEPT !.reversed = <<is_motor_reversed(name)>>]
    /\ UNCHANGED <<expr, verdict, src, pc, ir, out, GENERATION_CONFIG, generators, name>>

LookupSensorPort ==
    /\ looked.sensor = <<>>
    /\ looked' = [looked EXCEPT !.sensor = <<get_sensor_port(name)>>]
    /\ UNCHANGED <<expr, verdict, src, pc, ir, out, GENERATION_CONFIG, generators, name>>

InitCfg ==
    /\ name \in DeviceNames
    /\ looked = NoLookups
    /\ pc = "lookup"
    /\ src = NoSource
    /\ ir = NoOutcome
    /\ out = NoOutput
    /\ expr = NoExpr
    /\ verdict = NoVerdict
    /\ GENERATION_CONFIG = DefaultToggles
    /\ generators = <<>>

NextCfg == LookupMotorPort \/ LookupMotorReversed \/ LookupSensorPort

SpecCfg == InitCfg /\ [][NextCfg]_vars

-----------------------------------------------------------------------------
(* What the claims about recognition speak of *)

\* The statements recognition visits: those of a block and, through loops,
\* conditionals and function definitions, those of their blocks.
RECURSIVE Visited(_)
Visited(stmts) ==
    UNION { {stmts[i]}
               \cup (IF stmts[i].k \in {"For", "While", "If", "FunctionDef"}
                     THEN Visited(stmts[i].body) ELSE {})
               \cup (IF stmts[i].k = "If" THEN Visited(stmts[i].orelse) ELSE {})
          : i \in DOMAIN stmts }

\* The call of an expression statement, bare or awaited; <<>> when it has none
CallOf(stmt) ==
    IF stmt.k # "Expr" THEN <<>>
    ELSE IF stmt.value.k = "Call" THEN <<stmt.value>>
    ELSE IF stmt.value.k = "Await" /\ stmt.value.value.k = "Call" THEN <<stmt.value.value>>
    ELSE <<>>

MotorObjects == {"motor_a", "motor_b", "motor_c", "motor_d"}

OnObject(call, objects) ==
    call.func.k = "Attribute" /\ call.func.value.k = "Name" /\ call.func.value.id \in objects

IsMotorStart(call) == OnObject(call, MotorObjects) /\ call.func.attr = "start" /\ call.args # <<>>
IsMotorStop(call) == OnObject(call, MotorObjects) /\ call.func.attr = "stop"
IsWait(call) == call.func.k = "Name" /\ call.func.id = "wait" /\ call.args # <<>>

\* The motor-start and wait calls recognition visits
VisitedGatedCalls ==
    { CallOf(s)[1] : s \in { v \in Visited(ast_parse(src).body) :
                                 CallOf(v) # <<>> /\ (IsMotorStart(CallOf(v)[1]) \/ IsWait(CallOf(v)[1])) } }

\* The if and while statements recognition visits
VisitedConditionals == { s \in Visited(ast_parse(src).body) : s.k \in {"While", "If"} }

NumericLiteral(e) == e.k = "Constant" /\ e.value.t \in {"int", "float"}

\* An argument that is no numeric literal, no negated numeric literal (motor
\* start only) and not accepted by the numeric-expression grammar.
Unacceptable(call) ==
    /\ ~NumericLiteral(call.args[1])
    /\ ~(/\ IsMotorStart(call)
         /\ call.args[1].k = "UnaryOp" /\ call.args[1].op = "USub"
         /\ NumericLiteral(call.args[1].operand))
    /\ ~is_numeric_expr(call.args[1])

\* C1 (as stated): whenever the source holds a motor start or a wait whose
\* argument is no numeric literal, no negated numeric literal and not
\* accepted by the numeric-expression grammar, recognition ends in an error
\* and returns no instructions.
C1_UnacceptableArgumentFails ==
    pc # "start" /\ (\E call \in VisitedGatedCalls : Unacceptable(call))
        => pc = "failed" /\ ir.exc # "none" /\ ir.instructions = <<>>

\* The call shapes of the whitelist
WhitelistedCall(call) ==
    \/ call.func.k = "Name"
    \/ IsMotorStart(call)
    \/ IsMotorStop(call)
    \/ OnObject(call, {"ir_sensor"}) /\ call.func.attr \in {"get_direction", "get_strength"}

\* The statement shapes of the whitelist
Whitelisted(stmt) ==
    \/ stmt.k \in {"For", "While", "If", "FunctionDef", "Return", "Break"}
    \/ stmt.k = "Assign" /\ Len(stmt.targets) = 1 /\ stmt.targets[1].k = "Name"
    \/ stmt.k = "Expr" /\ stmt.value.k = "Constant" /\ stmt.value.value.t = "str"
    \/ CallOf(stmt) # <<>> /\ WhitelistedCall(CallOf(stmt)[1])

RECURSIVE Agrees(_, _)
\* instrs holds one instruction for each whitelisted statement of stmts and
\* none for the others, in source order, and so on through the blocks.
Agrees(stmts, instrs) ==
    LET kept == SelectSeq(stmts, Whitelisted)
    IN  /\ Len(instrs) = Len(kept)
        /\ \A i \in DOMAIN kept :
              /\ instrs[i].lineno = kept[i].lineno
              /\ instrs[i].end_lineno = kept[i].end_lineno
              /\ kept[i].k \in {"For", "While", "If", "FunctionDef"}
                    => Agrees(kept[i].body, instrs[i].body)
              /\ kept[i].k = "If" => Agrees(kept[i].orelse, BlockOf(instrs[i], "orelse"))

\* C2: a statement outside the whitelist yields no instruction and no error:
\* a returned IR holds exactly the instructions of the whitelisted
\* statements, block by block and in source order, and recognition fails
\* only on a source in which it visits a motor start, a wait, an if or a
\* while.
C2_UnrecognizedSkipped ==
    /\ pc \in {"recognized", "generated"} => Agrees(ast_parse(src).body, ir.instructions)
    /\ pc = "failed" => VisitedGatedCalls # {} \/ VisitedConditionals # {}

\* C2 witness: an IR was returned for a block holding a recognized
\* statement, then a two-target assignment, then a loop and a motor stop,
\* the loop's block holding the same again.
C2_Witness ==
    /\ pc = "recognized"
    /\ Len(src) = 5
    /\ src[2] = StmtItem(MultiAssign)
    /\ Len(ir.instructions) = 3
    /\ ir.instructions[2].type = "while"
    /\ Len(src[3].body) = 5
    /\ src[3].body[2] = StmtItem(MultiAssign)
    /\ Len(ir.instructions[2].body) = 3
    /\ ir.instructions[3].type = "motor_stop"

RECURSIVE InstructionConditions(_)
\* The conditions the if and while instructions carry, at any depth
InstructionConditions(instrs) ==
    UNION { (IF instrs[i].type \in {"if", "while"}
             THEN {[lineno |-> instrs[i].lineno, condition |-> instrs[i].condition]}
             ELSE {})
            \cup InstructionConditions(BlockOf(instrs[i], "body"))
            \cup InstructionConditions(BlockOf(instrs[i], "orelse"))
          : i \in DOMAIN instrs }

\* C3: every if and while instruction of a returned IR, at any depth,
\* carries the text of a condition the boolean-expression grammar accepts,
\* and when the grammar rejects the condition of a visited if or while,
\* recognition fails and returns no instructions.
C3_ConditionsGated ==
    /\ pc \in {"recognized", "generated"} =>
          \A c \in InstructionConditions(ir.instructions) :
              \E s \in VisitedConditionals :
                  /\ s.lineno = c.lineno
                  /\ c.condition = unparse(s.test)
                  /\ is_boolean_expr(s.test)
    /\ pc # "start" /\ (\E s \in VisitedConditionals : ~is_boolean_expr(s.test))
          => pc = "failed" /\ ir.exc # "none" /\ ir.instructions = <<>>

\* C3 witness: an IR was returned whose if instruction holds, in its orelse
\* branch, a while that carries its condition.
C3_Witness ==
    /\ pc = "recognized"
    /\ \E i \in DOMAIN ir.instructions :
          /\ ir.instructions[i].type = "if"
          /\ \E j \in DOMAIN BlockOf(ir.instructions[i], "orelse") :
                /\ ir.instructions[i].orelse[j].type = "while"
                /\ ir.instructions[i].orelse[j].condition = unparse(GoodTest)

\* Whether needle occurs in text
Occurs(needle, text) == \E i \in DOMAIN text : MatchesAt(text, needle, i)

\* C9 (as stated): every failed recognition reports the line number of the
\* offending construct and a message carrying the text of a gated
\* expression of the source.
C9_FailureLocated ==
    pc = "failed" =>
        /\ ir.lineno # PyNone
        /\ \/ \E call \in VisitedGatedCalls : Occurs(unparse(call.args[1]), ir.msg)
           \/ \E s \in VisitedConditionals : Occurs(unparse(s.test), ir.msg)

-----------------------------------------------------------------------------
(* What the claims about generation speak of *)

\* The lines of the generated main(): those after its header and before
\* the trailer.
MainBody(lines) ==
    LET header == CHOOSE i \in DOMAIN lines : lines[i] = Line(0, <<Tok("async def main():")>>)
    IN  SubSeq(lines, header + 1, Len(lines) - Len(Trailer))

\* A standalone comment of the source, as generated
IsCommentLine(l) == l.text # <<>> /\ l.text[1] = Tok("# note ")

\* The statement lines: every line that is not a comment line
Statements(lines) == SelectSeq(lines, LAMBDA l : ~IsCommentLine(l))

StartsWith(text, prefix) == Len(text) >= Len(prefix) /\ SubSeq(text, 1, Len(prefix)) = prefix

\* A motor start with a literal speed, a wait with a literal duration and a
\* motor stop, in that order and nothing else.
IsRoundTrip(stmts) ==
    /\ Len(stmts) = 3
    /\ \A i \in 1..3 : CallOf(stmts[i]) # <<>>
    /\ IsMotorStart(CallOf(stmts[1])[1])
    /\ \/ NumericLiteral(CallOf(stmts[1])[1].args[1])
       \/ /\ CallOf(stmts[1])[1].args[1].k = "UnaryOp"
          /\ CallOf(stmts[1])[1].args[1].op = "USub"
          /\ NumericLiteral(CallOf(stmts[1])[1].args[1].operand)
    /\ IsWait(CallOf(stmts[2])[1])
    /\ NumericLiteral(CallOf(stmts[2])[1].args[1])
    /\ IsMotorStop(CallOf(stmts[3])[1])

\* The literal duration of a round trip
DurationOf(stmts) == CallOf(stmts[2])[1].args[1].value

\* ms is seconds * 1000 truncated toward zero, for seconds >= 0:
\* ms <= seconds * 1000 < ms + 1
IsMilliseconds(ms, seconds) ==
    LET scale == IF seconds.t = "float" THEN FloatScale ELSE 1
    IN  ms * scale <= seconds.n * 1000 /\ seconds.n * 1000 < (ms + 1) * scale

\* await runloop.sleep_ms(<integer>)
IsSleep(text) ==
    /\ Len(text) = 7
    /\ SubSeq(text, 1, 5) = <<Tok("await "), Tok("runloop"), Tok("."), Tok("sleep_ms"), Tok("(")>>
    /\ DOMAIN text[6] = {"str"} /\ text[6].str.t = "int"
    /\ text[7] = Tok(")")

GapComments ==
    LET src_lines == splitlines(src)
    IN  { ln \in DOMAIN src_lines :
             /\ ~src_lines[ln].code /\ src_lines[ln].comment # <<>> /\ src_lines[ln].indent = 0
             /\ \E p \in DOMAIN ir.instructions : ir.instructions[p].end_lineno < ln
             /\ \E f \in DOMAIN ir.instructions : ir.instructions[f].lineno > ln }

RECURSIVE RenderedBefore(_, _, _)
\* How many lines are rendered for the instructions that end before line ln
RenderedBefore(self, instrs, ln) ==
    IF instrs = <<>> THEN 0
    ELSE (IF Head(instrs).end_lineno < ln
          THEN Len(generate_instruction(self, Head(instrs), 1).lines) ELSE 0)
            + RenderedBefore(self, Tail(instrs), ln)

\* How many lines of B before position idx are not top-level comment lines
StatementLinesBefore(B, idx) ==
    Cardinality({ j \in 1..(idx - 1) : ~(IsCommentLine(B[j]) /\ B[j].indent = 1) })

\* Comment ln is on its own line of B, once, after every line rendered for
\* the instructions before it and before every line rendered for the others.
PlacedInGap(self, B, ln, idx) ==
    /\ B[idx] = Line(1, self.src_lines[ln].comment)
    /\ \A j \in DOMAIN B : B[j] = B[idx] => j = idx
    /\ StatementLinesBefore(B, idx) = RenderedBefore(self, ir.instructions, ln)

\* C7 (as stated): every top-level standalone comment between two
\* instructions is generated on its own line, after the lines of the
\* preceding instruction, and the very next line is the first line of the
\* following instruction.
C7_CommentDirectlyBefore ==
    pc = "generated" /\ out.exc = "none" =>
        LET B == MainBody(out.lines)
            self == collect_comments(src) @@ [config |-> DefaultToggles]
        IN  \A ln \in GapComments :
                \E idx \in DOMAIN B :
                    /\ PlacedInGap(self, B, ln, idx)
                    /\ idx < Len(B) /\ ~IsCommentLine(B[idx + 1])

\* C7 (amended): every top-level standalone comment between two
\* instructions is generated on its own line, once, after every line of the
\* instructions that precede it and before every line of those that follow,
\* so that only comments of the same gap can separate it from the first
\* line of the following instruction.
C7_CommentInGap ==
    pc = "generated" /\ out.exc = "none" =>
        LET B == MainBody(out.lines)
            self == collect_comments(src) @@ [config |-> DefaultToggles]
        IN  \A ln \in GapComments :
                \E idx \in DOMAIN B : PlacedInGap(self, B, ln, idx)

\* C7 witness: a program was generated that has two comment lines in a row
\* between two of its instructions.
C7_Witness ==
    /\ pc = "generated"
    /\ out.exc = "none"
    /\ \E ln \in GapComments : ln + 1 \in GapComments

\* C8: the process-wide toggle table keeps its startup value, and a request
\* made without overrides has the default toggles and returns what the
\* defaults generate, whatever the other requests overrode.
C8_TogglesUntouched ==
    /\ GENERATION_CONFIG = DefaultToggles
    /\ \A i \in DOMAIN generators :
          DOMAIN generators[i].overrides = {} =>
              /\ generators[i].config = DefaultToggles
              /\ generators[i].returned # <<>> =>
                    generators[i].returned[1] = generate(DefaultToggles, ir.instructions, src)

\* C8 witness: a request without overrides has returned after a request
\* with overrides returned and while another with overrides is in flight.
C8_Witness ==
    /\ Len(generators) = 3
    /\ DOMAIN generators[1].overrides # {} /\ generators[1].returned # <<>>
    /\ DOMAIN generators[2].overrides # {} /\ generators[2].returned = <<>>
    /\ DOMAIN generators[3].overrides = {} /\ generators[3].returned # <<>>

\* C10: for a name without an entry in the motor table the port lookup
\* returns port.A and the reversal lookup returns False; for a name without
\* an entry in the sensor table the sensor lookup returns port.E.
C10_LookupDefaults ==
    /\ name \notin DOMAIN MOTOR_MAPPING =>
          /\ looked.port # <<>> => looked.port = <<"port.A">>
          /\ looked.reversed # <<>> => looked.reversed = <<FALSE>>
    /\ name \notin DOMAIN SENSOR_MAPPING =>
          (looked.sensor # <<>> => looked.sensor = <<"port.E">>)

\* C10 witness: the three lookups were made on a name that neither table
\* holds.
C10_Witness ==
    /\ name \notin DOMAIN MOTOR_MAPPING \cup DOMAIN SENSOR_MAPPING
    /\ looked.port # <<>> /\ looked.reversed # <<>> /\ looked.sensor # <<>>

-----------------------------------------------------------------------------
(* What the claims about sensors and the preamble speak of *)

RECURSIVE ExpressionTexts(_)
\* The texts of the expression-bearing fields of the instructions, at any
\* depth: expressions, speed and seconds expressions, conditions, iterables
\* and the expression arguments of function calls.
ExpressionTexts(instrs) ==
    UNION { { instrs[i][key] : key \in {"expression", "speed_expr", "seconds_expr", "condition", "iter"}
                                         \cap DOMAIN instrs[i] }
            \cup (IF instrs[i].type = "function_call"
                  THEN { instrs[i].args[j].value :
                            j \in { a \in DOMAIN instrs[i].args : instrs[i].args[a].type = "expression" } }
                  ELSE {})
            \cup ExpressionTexts(BlockOf(instrs[i], "body"))
            \cup ExpressionTexts(BlockOf(instrs[i], "orelse"))
          : i \in DOMAIN instrs }

\* The sensor is named in some expression-bearing field of the IR
Referenced(sensor) == \E text \in ExpressionTexts(ir.instructions) : TextContains(text, sensor)

\* The generated program has this text as a line of its own at module level
HasLine(text) == \E i \in DOMAIN out.lines : out.lines[i] = Line(0, text)

\* The port constant a sensor has, <<>> when it has none
PortConstantLine(sensor) ==
    CASE sensor = "color_sensor" ->
            <<<<Tok("COLOR_SENSOR"), Tok(" = "), Tok(get_sensor_port("color_sensor"))>>>>
      [] sensor = "distance_sensor" ->
            <<<<Tok("DISTANCE_SENSOR"), Tok(" = "), Tok(get_sensor_port("distance_sensor"))>>>>
      [] OTHER -> <<>>

\* C11 (as stated): the generated program holds a sensor's import line, and
\* its port constant where it has one, exactly when the sensor is named in
\* some expression-bearing field of the IR, function-call arguments included.
C11_ImportIffReferenced ==
    pc = "generated" /\ out.exc = "none" =>
        \A sensor \in {"color_sensor", "distance_sensor", "gyro_sensor"} :
            /\ HasLine(SENSOR_IMPORTS[sensor]) <=> Referenced(sensor)
            /\ PortConstantLine(sensor) # <<>> =>
                  (HasLine(PortConstantLine(sensor)[1]) <=> Referenced(sensor))

-----------------------------------------------------------------------------
(* What the claims about comments in nested blocks speak of *)

RECURSIVE Compounds(_)
\* The for, while, if and function instructions of the IR, at any depth
Compounds(instrs) ==
    UNION { (IF IsCompound(instrs[i]) THEN {instrs[i]} ELSE {})
            \cup Compounds(BlockOf(instrs[i], "body"))
            \cup Compounds(BlockOf(instrs[i], "orelse"))
          : i \in DOMAIN instrs }

\* The greatest element of a non-empty set of numbers
Greatest(S) == CHOOSE i \in S : \A j \in S : j <= i

\* The line that opens the block a line of `lines` sits in: the nearest
\* line above it that holds code and is indented less; <<>> when none is.
HeaderAbove(lines, idx, IsCode(_)) ==
    LET above == { i \in 1..(idx - 1) : lines[i].indent < lines[idx].indent /\ IsCode(lines[i]) }
    IN  IF above = {} THEN <<>> ELSE <<Greatest(above)>>

\* The keyword that opens the rendering of a compound instruction
HeaderKeyword(instr) ==
    CASE instr.type = "for" -> Tok("for ") [] instr.type = "while" -> Tok("while ")
      [] instr.type = "if" -> Tok("if ") [] instr.type = "function_def" -> Tok("async def ")

\* The block of the source that standalone comment ln sits in, when that
\* block is the body or the else branch of a compound instruction and ln
\* lies in the instruction's line range: the keyword its rendering opens
\* with; <<>> otherwise.
BlockOfComment(ln) ==
    LET src_lines == splitlines(src)
        h == HeaderAbove(src_lines, ln, LAMBDA l : l.code)
        bodies == { c \in Compounds(ir.instructions) : h = <<c.lineno>> /\ ln <= c.end_lineno }
        branches == { c \in Compounds(ir.instructions) :
                         /\ c.type = "if" /\ "orelse" \in DOMAIN c
                         /\ c.lineno < h[1] /\ h[1] < ln /\ ln <= c.end_lineno
                         /\ src_lines[h[1]].indent = src_lines[c.lineno].indent }
    IN  IF h = <<>> THEN <<>>
        ELSE IF bodies # {} THEN <<HeaderKeyword(CHOOSE c \in bodies : TRUE)>>
        ELSE IF branches # {} THEN <<Tok("else:")>>
        ELSE <<>>

\* The standalone comment lines of the source
StandaloneComments ==
    LET src_lines == splitlines(src)
    IN  { ln \in DOMAIN src_lines : ~src_lines[ln].code /\ src_lines[ln].comment # <<>> }

\* The positions of the generated main body that hold comment ln
Renderings(B, ln) == { idx \in DOMAIN B : B[idx].text = splitlines(src)[ln].comment }

\* C12 (as stated): a standalone comment inside the line range of a nested
\* block is generated, each time at the indent of that block and under the
\* header that opens that block's rendering (the loop, if or function header
\* for a body, the else line for an else branch).
C12_CommentInInnermostBlock ==
    pc = "generated" /\ out.exc = "none" =>
        LET B == MainBody(out.lines)
        IN  \A ln \in StandaloneComments :
                BlockOfComment(ln) # <<>> =>
                    /\ Renderings(B, ln) # {}
                    /\ \A idx \in Renderings(B, ln) :
                          LET header == HeaderAbove(B, idx, LAMBDA l : ~IsCommentLine(l))
                          IN  /\ B[idx].indent = splitlines(src)[ln].indent + 1
                              /\ header # <<>>
                              /\ StartsWith(B[header[1]].text, BlockOfComment(ln))

-----------------------------------------------------------------------------
(* What the claims about assignments and returns speak of *)

\* The built-in sensor getters
SensorGetters == {"get_distance", "get_color", "get_reflected_light", "get_angle", "get_rate"}

\* The assignments to one name that recognition visits and whose
\* right-hand side is a call
VisitedCallAssigns ==
    { s \in Visited(ast_parse(src).body) :
          /\ s.k = "Assign" /\ Len(s.targets) = 1 /\ s.targets[1].k = "Name"
          /\ s.value.k = "Call" }

\* Whether a call is one of a sensor getter: a method of that name
IsGetterCall(call) == call.func.k = "Attribute" /\ call.func.attr \in SensorGetters

\* The rendering of an assignment, plain or awaited
AssignText(s, awaited) ==
    <<Tok(s.targets[1].id), Tok(" = ")>> \o (IF awaited THEN <<Tok("await ")>> ELSE <<>>)
        \o translate_expression(unparse(s.value))

\* C13 (as stated): an assignment whose right-hand side is a call of a
\* built-in sensor getter is generated as a plain assignment, never as an
\* awaited one; an assignment whose right-hand side is a call of any other
\* function is generated as an awaited assignment, never as a plain one.
C13_GettersPlainOthersAwaited ==
    pc = "generated" /\ out.exc = "none" =>
        LET B == MainBody(out.lines)
            Generated(text) == \E i \in DOMAIN B : B[i].text = text
        IN  \A s \in VisitedCallAssigns :
                /\ Generated(AssignText(s, ~IsGetterCall(s.value)))
                /\ ~Generated(AssignText(s, IsGetterCall(s.value)))

RECURSIVE Instructions(_)
\* The instructions of an IR, at any depth
Instructions(instrs) ==
    UNION { {instrs[i]} \cup Instructions(BlockOf(instrs[i], "body"))
                        \cup Instructions(BlockOf(instrs[i], "orelse"))
          : i \in DOMAIN instrs }

\* The return statements without a value that recognition visits
VisitedBareReturns == { s \in Visited(ast_parse(src).body) : s.k = "Return" /\ s.value = <<>> }

\* C14 (as stated): the return instruction recognition yields for a bare
\* return has neither a value field nor an expression field; absence is
\* never written as a field that holds None.
C14_BareReturnHasNoField ==
    pc # "start" /\ ir.exc = "none" =>
        \A s \in VisitedBareReturns :
            \A instr \in Instructions(ir.instructions) :
                instr.type = "return" /\ instr.lineno = s.lineno =>
                    "value" \notin DOMAIN instr /\ "expression" \notin DOMAIN instr

-----------------------------------------------------------------------------
(* The sensor-API substitution on its own *)

\* The most operands a translated expression adds together
MaxOperands == 2

\* The sensor calls the substitution table names
SensorMethods ==
    { <<"distance_sensor", "get_distance">>, <<"distance_sensor", "get_distance_cm">>,
      <<"color_sensor", "get_reflected_light">>, <<"color_sensor", "get_color">>,
      <<"ir_sensor", "get_direction">>, <<"ir_sensor", "get_strength">>,
      <<"gyro_sensor", "get_angle">>, <<"gyro_sensor", "get_rate">> }

\* A name, the sensor calls, and the sensor calls reached through an
\* attribute named as a sensor object: p.obj.method()
TranslationOperands ==
    {Name("x")}
        \cup { SensorCall(c[1], c[2]) : c \in SensorMethods }
        \cup { Call(Attribute(Attribute(Name(p), c[1]), c[2]), <<>>, <<>>)
                 : p \in {"distance_sensor", "ir_sensor"}, c \in SensorMethods }

RECURSIVE Sums(_)
\* The sums of up to n operands
Sums(n) ==
    IF n <= 1 THEN TranslationOperands
    ELSE Sums(n - 1) \cup { BinOp(l, "Add", r) : l \in Sums(n - 1), r \in TranslationOperands }

InitTr ==
    /\ expr \in Sums(MaxOperands)
    /\ verdict = NoVerdict
    /\ pc = "translate"
    /\ src = NoSource
    /\ ir = NoOutcome
    /\ out = NoOutput
    /\ GENERATION_CONFIG = DefaultToggles
    /\ generators = <<>>
    /\ name = ""
    /\ looked = NoLookups

\* self._translate_expression(expr) on the text recognition stores
Translate ==
    /\ pc = "translate"
    /\ out' = [exc |-> "none", lines |-> <<Line(0, translate_expression(unparse(expr)))>>]
    /\ pc' = "translated"
    /\ UNCHANGED <<expr, verdict, src, ir, GENERATION_CONFIG, generators, name, looked>>

NextTr == Translate

SpecTr == InitTr /\ [][NextTr]_vars

RECURSIVE ReplaceAtOnce(_)
\* One pass over the text, left to right: where a table key begins, its
\* replacement is written and the pass goes on behind the key.
ReplaceAtOnce(text) ==
    IF text = <<>> THEN <<>>
    ELSE LET hits == { i \in DOMAIN SENSOR_TRANSLATIONS : MatchesAt(text, SENSOR_TRANSLATIONS[i][1], 1) }
         IN  IF hits = {} THEN <<Head(text)>> \o ReplaceAtOnce(Tail(text))
             ELSE LET entry == SENSOR_TRANSLATIONS[CHOOSE i \in hits : TRUE]
                  IN  entry[2] \o ReplaceAtOnce(SubSeq(text, Len(entry[1]) + 1, Len(text)))

RECURSIVE TranslatedThrough(_, _)
\* The text after the first n table entries have been applied
TranslatedThrough(text, n) ==
    IF n = 0 THEN text
    ELSE Replace(TranslatedThrough(text, n - 1), SENSOR_TRANSLATIONS[n][1], SENSOR_TRANSLATIONS[n][2])

\* The positions of a text where a key begins
Occurrences(key, text) == { i \in DOMAIN text : MatchesAt(text, key, i) }

\* C15: the text the entry-by-entry substitution produces is the text one
\* simultaneous pass over the original produces, and when an entry's turn
\* comes its key occurs in the text as often as in the original: no
\* replacement made before it has introduced or removed an occurrence.
C15_SequentialIsSimultaneous ==
    pc = "translated" =>
        LET text == unparse(expr)
        IN  /\ out.lines[1].text = ReplaceAtOnce(text)
            /\ \A j \in DOMAIN SENSOR_TRANSLATIONS :
                   Cardinality(Occurrences(SENSOR_TRANSLATIONS[j][1], TranslatedThrough(text, j - 1)))
                       = Cardinality(Occurrences(SENSOR_TRANSLATIONS[j][1], text))

\* A translated text in which a replacement has formed the key of an
\* entry that was applied before it
C15_Witness ==
    /\ pc = "translated"
    /\ \E i, j \in DOMAIN SENSOR_TRANSLATIONS :
          /\ i < j
          /\ Occurs(SENSOR_TRANSLATIONS[j][1], unparse(expr))
          /\ ~Occurs(SENSOR_TRANSLATIONS[i][1], unparse(expr))
          /\ Occurs(SENSOR_TRANSLATIONS[i][1], out.lines[1].text)

-----------------------------------------------------------------------------
(* What the claims about the generated program as a whole speak of *)

\* C16 (as stated): every standalone comment line of the source occurs at
\* most once in the generated program, whatever the nesting of compound
\* statements, a compound statement inside an else branch included.
C16_CommentAtMostOnce ==
    pc = "generated" /\ out.exc = "none" =>
        \A ln \in StandaloneComments : Cardinality(Renderings(out.lines, ln)) <= 1

\* The generated main(): its header line and its body
MainFunction(lines) ==
    LET header == CHOOSE i \in DOMAIN lines : lines[i] = Line(0, <<Tok("async def main():")>>)
    IN  SubSeq(lines, header, Len(lines) - Len(Trailer))

\* A line that opens a block: async def main, for, while, if, else, or the
\* async def of a user function
IsHeaderLine(l) ==
    \/ l.text = <<Tok("async def main():")>>
    \/ l.text = <<Tok("else:")>>
    \/ /\ l.text # <<>>
       /\ l.text[1] \in {Tok("for "), Tok("while "), Tok("if "), Tok("async def ")}
       /\ l.text[Len(l.text)] = Tok(":")

\* C17 (as stated): in the generated main(), the first line after a block
\* header that is not a comment exists and is a statement line one indent
\* level deeper than the header.
C17_HeaderHasBody ==
    pc = "generated" /\ out.exc = "none" =>
        LET F == MainFunction(out.lines)
        IN  \A i \in DOMAIN F :
                IsHeaderLine(F[i]) =>
                    \E j \in (i + 1)..Len(F) :
                        /\ ~IsCommentLine(F[j]) /\ F[j].text # <<>>
                        /\ F[j].indent = F[i].indent + 1
                        /\ \A m \in (i + 1)..(j - 1) : IsCommentLine(F[m])

\* The lines before the header of main(): imports, helpers, constants
PreambleLines(lines) ==
    LET header == CHOOSE i \in DOMAIN lines : lines[i] = Line(0, <<Tok("async def main():")>>)
    IN  SubSeq(lines, 1, header - 1)

HelperNames == {"percent_to_dps", "apply_direction", "get_distance"}
ModuleNames == {"distance_sensor", "color_sensor", "motion_sensor"}
PortNames ==
    {"COLOR_SENSOR", "DISTANCE_SENSOR", "IR_SEEKER_PORT"}
        \cup { Upper(m) : m \in {"a", "b", "c", "d"} }
        \cup { ReversedName(Upper(m)) : m \in {"a", "b", "c", "d"} }

\* The import line that brings a module name in
ImportOf(module) ==
    IF module = "motion_sensor" THEN <<Tok("from hub import motion_sensor")>>
    ELSE <<Tok("import " \o module)>>

\* Whether the preamble P defines or imports a name
DefinedIn(P, n) ==
    \E i \in DOMAIN P :
        \/ n \in HelperNames /\ StartsWith(P[i].text, <<Tok("def "), Tok(n)>>)
        \/ n \in ModuleNames /\ P[i].text = ImportOf(n)
        \/ n \in PortNames /\ StartsWith(P[i].text, <<Tok(n), Tok(" = ")>>)

\* Whether a statement line of the body B names n
ReferredIn(B, n) ==
    \E i \in DOMAIN B : ~IsCommentLine(B[i]) /\ \E k \in DOMAIN B[i].text : B[i].text[k] = Tok(n)

\* C18 (as stated): every helper function, module and port constant the
\* generated body of main() refers to is defined or imported in the
\* preamble of the same program, under every choice of toggles.
C18_BodyNamesDefined ==
    pc = "generated" /\ out.exc = "none" =>
        \A n \in HelperNames \cup ModuleNames \cup PortNames :
            ReferredIn(MainBody(out.lines), n) => DefinedIn(PreambleLines(out.lines), n)

\* The motor channels the source uses: the letters x of the motor_x objects
\* whose start or stop calls recognition visits
UsedChannels ==
    { m \in {"a", "b", "c", "d"} :
          \E s \in Visited(ast_parse(src).body) :
              /\ CallOf(s) # <<>>
              /\ OnObject(CallOf(s)[1], {"motor_" \o m})
              /\ IsMotorStart(CallOf(s)[1]) \/ IsMotorStop(CallOf(s)[1]) }

\* The ports the preamble P declares for a constant
DeclaredPorts(P, const_name) ==
    { P[i].text[3] : i \in { k \in DOMAIN P : Len(P[k].text) = 3 /\ StartsWith(P[k].text, <<Tok(const_name), Tok(" = ")>>) } }

\* C19 (as stated): for every motor channel the source uses, the port the
\* generated program declares for its constant is the port the device table
\* assigns to the device name motor_x, so two channels used in one program
\* are declared on different ports.
C19_ChannelPortFromTable ==
    pc = "generated" /\ out.exc = "none" =>
        LET P == PreambleLines(out.lines)
        IN  /\ \A m \in UsedChannels :
                  DeclaredPorts(P, Upper(m)) = {Tok(MOTOR_MAPPING["motor_" \o m].port)}
            /\ \A m, n \in UsedChannels :
                  m # n => DeclaredPorts(P, Upper(m)) \cap DeclaredPorts(P, Upper(n)) = {}

-----------------------------------------------------------------------------
(* What the claim about the reserved names speaks of *)

\* The statements recognition visits that call wait or print by name
VisitedReservedCalls ==
    { s \in Visited(ast_parse(src).body) :
          /\ CallOf(s) # <<>>
          /\ CallOf(s)[1].func.k = "Name"
          /\ CallOf(s)[1].func.id \in {"wait", "print"} }

\* C20 (as stated): no instruction of a returned IR, at any depth, is a
\* function_call named wait or print, and what a visited call of wait or
\* print yields, if anything, is an instruction of that type.
C20_ReservedNeverFunctionCall ==
    pc # "start" /\ ir.exc = "none" =>
        /\ \A instr \in Instructions(ir.instructions) :
               instr.type = "function_call" => instr.name \notin {"wait", "print"}
        /\ \A s \in VisitedReservedCalls :
               \A instr \in Instructions(ir.instructions) :
                   instr.lineno = s.lineno => instr.type = CallOf(s)[1].func.id

=============================================================================
